---------------------------- MODULE Spec2Model ----------------------------
(***************************************************************************)
(* A model of the accessible code-navigation pipeline: the structural      *)
(* scanner, the navigation/search index, the audio cue mapper and the      *)
(* Braille transliteration engine.                                         *)
(*                                                                         *)
(* JavaScript strings are sequences of one-character strings, so that      *)
(* trimming, prefix tests, substring tests and case folding are computed.  *)
(* An optional value (a field that may be undefined) is the empty          *)
(* sequence when absent and a one-element sequence when present.           *)
(***************************************************************************)
EXTENDS Integers, Sequences, FiniteSets, TLC

\* NavigationHelper: the number of scans installed, the identity of their arrays
VARIABLE scanCount

(***************************************************************************)
(* Characters and strings                                                  *)
(***************************************************************************)
LowerLetters == <<"a","b","c","d","e","f","g","h","i","j","k","l","m","n","o","p","q","r","s","t","u","v","w","x","y","z">>

UpperLetters == <<"A","B","C","D","E","F","G","H","I","J","K","L","M","N","O","P","Q","R","S","T","U","V","W","X","Y","Z">>

Digits == <<"0","1","2","3","4","5","6","7","8","9">>

Range(s) == {s[i] : i \in 1..Len(s)}

None == <<>>

Some(x) == <<x>>

\* a || b for an optional value or a string: the empty one is falsy
OrElse(context, other) == IF context # <<>> THEN context ELSE other

Min(S) == CHOOSE x \in S : \A y \in S : x <= y

Max(S) == CHOOSE x \in S : \A y \in S : y <= x

DigitChars == Range(Digits)

UpperChars == Range(UpperLetters)

LowerChars == Range(LowerLetters)

IsDigit(c) == c \in DigitChars

IsUpper(c) == c \in UpperChars

IsLetter(c) == c \in LowerChars \/ c \in UpperChars

\* \w of a JavaScript regular expression
IsWordChar(c) == IsLetter(c) \/ IsDigit(c) \/ c = "_"

\* \s of a JavaScript regular expression (the characters the inputs use)
IsSpace(c) == c \in {" ", "\t", "\n"}

LowerOf == [c \in UpperChars |-> LowerLetters[CHOOSE i \in 1..26 : UpperLetters[i] = c]]

UpperOf == [c \in LowerChars |-> UpperLetters[CHOOSE i \in 1..26 : LowerLetters[i] = c]]

ToLowerChar(c) == IF c \in UpperChars THEN LowerOf[c] ELSE c

ToUpperChar(c) == IF c \in LowerChars THEN UpperOf[c] ELSE c

\* String.prototype.toLowerCase
ToLowerCase(s) == [i \in 1..Len(s) |-> ToLowerChar(s[i])]

\* s.slice(from) with a 0-based index, as in JavaScript
SliceFrom(s, from) == IF from >= Len(s) THEN <<>> ELSE SubSeq(s, from + 1, Len(s))

\* s.substring(a, b) with 0-based, end-exclusive indices
Substring(s, a, b) ==
  LET e == IF b > Len(s) THEN Len(s) ELSE b
  IN  IF a >= e THEN <<>> ELSE SubSeq(s, a + 1, e)

\* w occurs in s at the 0-based position i
StartsWithAt(s, w, i) ==
  /\ i + Len(w) <= Len(s)
  /\ \A k \in 1..Len(w) : s[i + k] = w[k]

StartsWith(s, w) == StartsWithAt(s, w, 0)

\* String.prototype.includes
Includes(s, w) == \E i \in 0..Len(s) : StartsWithAt(s, w, i)

\* String.prototype.indexOf: the first 0-based position of w in s, or -1
IndexOf(s, w) ==
  IF Includes(s, w)
    THEN CHOOSE i \in 0..Len(s) :
           /\ StartsWithAt(s, w, i)
           /\ \A j \in 0..(i - 1) : ~StartsWithAt(s, w, j)
    ELSE 0 - 1

\* the 0-based position of the first non-space character at or after i
SkipSpaces(s, i) ==
  IF \E j \in (i + 1)..Len(s) : ~IsSpace(s[j])
    THEN (CHOOSE j \in (i + 1)..Len(s) :
            /\ ~IsSpace(s[j])
            /\ \A k \in (i + 1)..(j - 1) : IsSpace(s[k])) - 1
    ELSE IF i > Len(s) THEN i ELSE Len(s)

\* the 0-based position after the run of word characters that starts at i
SkipWord(s, i) ==
  IF \E j \in (i + 1)..Len(s) : ~IsWordChar(s[j])
    THEN (CHOOSE j \in (i + 1)..Len(s) :
            /\ ~IsWordChar(s[j])
            /\ \A k \in (i + 1)..(j - 1) : IsWordChar(s[k])) - 1
    ELSE IF i > Len(s) THEN i ELSE Len(s)

\* String.prototype.trim
Trim(s) ==
  IF \A i \in 1..Len(s) : IsSpace(s[i]) THEN <<>>
  ELSE LET first == CHOOSE i \in 1..Len(s) :
                      ~IsSpace(s[i]) /\ \A k \in 1..(i - 1) : IsSpace(s[k])
           last  == CHOOSE i \in 1..Len(s) :
                      ~IsSpace(s[i]) /\ \A k \in (i + 1)..Len(s) : IsSpace(s[k])
       IN  SubSeq(s, first, last)

\* s.split(ch) for a one-character separator
RECURSIVE Split(_, _)
Split(s, ch) ==
  IF \A i \in 1..Len(s) : s[i] # ch THEN <<s>>
  ELSE LET p == CHOOSE i \in 1..Len(s) :
                  s[i] = ch /\ \A k \in 1..(i - 1) : s[k] # ch
       IN  <<SubSeq(s, 1, p - 1)>> \o Split(SubSeq(s, p + 1, Len(s)), ch)

\* lines.join('\n')
RECURSIVE JoinLines(_)
JoinLines(lines) ==
  IF lines = <<>> THEN <<>>
  ELSE IF Len(lines) = 1 THEN lines[1]
  ELSE lines[1] \o <<"\n">> \o JoinLines(Tail(lines))

\* the decimal digits of a natural number, as a string
RECURSIVE NatToString(_)
NatToString(n) ==
  IF n < 10 THEN <<Digits[n + 1]>>
  ELSE NatToString(n \div 10) \o <<Digits[(n % 10) + 1]>>


(***************************************************************************)
(* Structural scanner: calculateComplexity                                 *)
(***************************************************************************)
\* the regular-expression assertion \b, one token of a pattern
WordBoundary == "\\b"

complexityKeywords ==
  << <<"i","f">>, <<"e","l","s","e">>, <<"w","h","i","l","e">>, <<"f","o","r">>, <<"s","w","i","t","c","h">>,
     <<"c","a","s","e">>, <<"c","a","t","c","h">>, <<"&","&">>, <<"|","|">>, <<"?">> >>

\* the source of new RegExp(`\\b${keyword}\\b`, 'gi'), as a token sequence
KeywordPattern(keyword) == <<WordBoundary>> \o keyword \o <<WordBoundary>>

Quantifiers == {"?", "*", "+"}

\* new RegExp throws SyntaxError (nothing to repeat): a quantifier opens an
\* alternative or follows an assertion or another quantifier
RegExpSyntaxError(pattern) ==
  \E i \in 1..Len(pattern) :
    /\ pattern[i] \in Quantifiers
    /\ \/ i = 1
       \/ pattern[i - 1] \in ({WordBoundary, "|"} \cup Quantifiers)

IsWordAt(s, k) == k \in 1..Len(s) /\ IsWordChar(s[k])

\* \b holds between the characters at 1-based positions pos and pos + 1
WordBoundaryAt(s, pos) == IsWordAt(s, pos) # IsWordAt(s, pos + 1)

\* the length matched by one alternative (assertions and literals, flag i)
\* at the 0-based position pos, or -1 when it does not match there
RECURSIVE MatchTokens(_, _, _)
MatchTokens(tokens, s, pos) ==
  IF tokens = <<>> THEN 0
  ELSE IF Head(tokens) = WordBoundary
    THEN IF WordBoundaryAt(s, pos) THEN MatchTokens(Tail(tokens), s, pos) ELSE 0 - 1
  ELSE IF pos < Len(s) /\ ToLowerChar(s[pos + 1]) = ToLowerChar(Head(tokens))
    THEN LET rest == MatchTokens(Tail(tokens), s, pos + 1)
         IN  IF rest < 0 THEN rest ELSE rest + 1
  ELSE 0 - 1

\* the first alternative, in order, that matches at pos: its length, or -1
RECURSIVE MatchAlternatives(_, _, _)
MatchAlternatives(alts, s, pos) ==
  IF alts = <<>> THEN 0 - 1
  ELSE LET m == MatchTokens(Head(alts), s, pos)
       IN  IF m >= 0 THEN m ELSE MatchAlternatives(Tail(alts), s, pos)

\* line.match(regex) with flag g: the number of matches found from pos on;
\* an empty match advances by one character
RECURSIVE CountMatchesFrom(_, _, _)
CountMatchesFrom(alts, s, pos) ==
  IF pos > Len(s) THEN 0
  ELSE LET m == MatchAlternatives(alts, s, pos)
       IN  IF m < 0 THEN CountMatchesFrom(alts, s, pos + 1)
           ELSE IF m = 0 THEN 1 + CountMatchesFrom(alts, s, pos + 1)
           ELSE 1 + CountMatchesFrom(alts, s, pos + m)

CountMatches(pattern, s) == CountMatchesFrom(Split(pattern, "|"), s, 0)

\* the forEach over the keywords, from the k-th on; raised when RegExp throws
RECURSIVE ComplexityFrom(_, _, _)
ComplexityFrom(line, k, complexity) ==
  IF k > Len(complexityKeywords) THEN [raised |-> FALSE, value |-> complexity]
  ELSE LET pattern == KeywordPattern(complexityKeywords[k])
       IN  IF RegExpSyntaxError(pattern)
             THEN [raised |-> TRUE, value |-> complexity]
             ELSE ComplexityFrom(line, k + 1, complexity + CountMatches(pattern, line))

calculateComplexity(line) == ComplexityFrom(line, 1, 1)


(***************************************************************************)
(* Structural scanner: the line patterns of parseCode                      *)
(***************************************************************************)
StrAsync == <<"a","s","y","n","c">>

StrFunction == <<"f","u","n","c","t","i","o","n">>

StrConst == <<"c","o","n","s","t">>

StrLet == <<"l","e","t">>

StrVar == <<"v","a","r">>

StrClass == <<"c","l","a","s","s">>

StrExport == <<"e","x","p","o","r","t">>

StrAbstract == <<"a","b","s","t","r","a","c","t">>

StrExtends == <<"e","x","t","e","n","d","s">>

StrImplements == <<"i","m","p","l","e","m","e","n","t","s">>

StrImport == <<"i","m","p","o","r","t">>

StrFrom == <<"f","r","o","m">>

StrDefault == <<"d","e","f","a","u","l","t">>

StrFor == <<"f","o","r">>

StrWhile == <<"w","h","i","l","e">>

StrDo == <<"d","o">>

StrIf == <<"i","f">>

StrElse == <<"e","l","s","e">>

StrSwitch == <<"s","w","i","t","c","h">>

StrCase == <<"c","a","s","e">>

StrGlobal == <<"g","l","o","b","a","l">>

StrGroup == <<"g","r","o","u","p">>

StrEllipsis == <<".",".",".">>

StrSlashSlash == <<"/","/">>

StrSlashStar == <<"/","*">>

StrStarSlash == <<"*","/">>

\* keyword followed by \s+ at the 0-based position p: the position after the
\* white space, or -1
KeywordSpaces(t, keyword, p) ==
  IF /\ StartsWithAt(t, keyword, p)
     /\ p + Len(keyword) < Len(t)
     /\ IsSpace(t[p + Len(keyword) + 1])
    THEN SkipSpaces(t, p + Len(keyword))
    ELSE 0 - 1

\* the 0-based position of the first ch at or after the 0-based position p, or -1
FirstCharFrom(t, ch, p) ==
  IF \E j \in (p + 1)..Len(t) : t[j] = ch
    THEN (CHOOSE j \in (p + 1)..Len(t) :
            t[j] = ch /\ \A k \in (p + 1)..(j - 1) : t[k] # ch) - 1
    ELSE 0 - 1

\* \(([^)]*)\) at the 0-based position open, after (async\s+)? matched or not
ParamsAt(t, open, async) ==
  IF open >= 0 /\ open < Len(t) /\ t[open + 1] = "("
       /\ FirstCharFrom(t, ")", open + 1) >= 0
    THEN Some([async |-> async,
               params |-> Substring(t, open + 1, FirstCharFrom(t, ")", open + 1))])
    ELSE None

\* (async\s+)?\(([^)]*)\) at the 0-based position q
AsyncParamsAt(t, q) ==
  OrElse(ParamsAt(t, KeywordSpaces(t, StrAsync, q), TRUE), ParamsAt(t, q, FALSE))

\* [=:]?\s* at the 0-based position q: the position after it
AfterAssign(t, q) ==
  SkipSpaces(t, IF q < Len(t) /\ t[q + 1] \in {"=", ":"} THEN q + 1 ELSE q)

\* \s*[=:]?\s*(async\s+)?\(([^)]*)\) at the 0-based position p
FunctionTail(t, p) == AsyncParamsAt(t, AfterAssign(t, SkipSpaces(t, p)))

\* the ends of (\w+) at the 0-based position p that the tail can follow
NameEnds(t, p) == {n \in (p + 1)..SkipWord(t, p) : FunctionTail(t, n) # None}

\* (\w+) at the 0-based position p, greedy with backtracking, then the tail
FunctionNameAt(t, p) ==
  IF p < 0 \/ NameEnds(t, p) = {} THEN None
  ELSE Some([name |-> Substring(t, p, Max(NameEnds(t, p))),
             tail |-> FunctionTail(t, Max(NameEnds(t, p)))[1]])

DeclaratorKeywords == <<StrFunction, StrConst, StrLet, StrVar>>

\* (function\s+|const\s+|let\s+|var\s+)? at p: the positions to try, in order
DeclaratorStarts(t, p) ==
  IF p < 0 THEN <<>>
  ELSE IF \A k \in 1..4 : KeywordSpaces(t, DeclaratorKeywords[k], p) < 0 THEN <<p>>
  ELSE <<KeywordSpaces(t, DeclaratorKeywords[
           Min({k \in 1..4 : KeywordSpaces(t, DeclaratorKeywords[k], p) >= 0})], p), p>>

\* the paths in the order a backtracking matcher tries them: with and
\* without (async\s+)?
FunctionPaths(withAsync, without) ==
  [i \in 1..Len(withAsync) |-> [async |-> TRUE, at |-> withAsync[i]]]
    \o [i \in 1..Len(without) |-> [async |-> FALSE, at |-> without[i]]]

\* the groups 1, 3, 4 and 5 of the match on the path
FunctionGroups(path, m) ==
  [async1 |-> path.async, name |-> m.name, async4 |-> m.tail.async,
   params |-> m.tail.params]

FirstPath(t, paths, ok) ==
  IF ok = {} THEN None
  ELSE Some(FunctionGroups(paths[Min(ok)], FunctionNameAt(t, paths[Min(ok)].at)[1]))

MatchPaths(t, paths) ==
  FirstPath(t, paths, {i \in 1..Len(paths) : FunctionNameAt(t, paths[i].at) # None})

\* /^(async\s+)?(function\s+|const\s+|let\s+|var\s+)?(\w+)\s*[=:]?\s*(async\s+)?\(([^)]*)\)\s*[{:]?/
FunctionMatch(t) ==
  MatchPaths(t, FunctionPaths(DeclaratorStarts(t, KeywordSpaces(t, StrAsync, 0)),
                              DeclaratorStarts(t, 0)))

\* p.trim().split(/[:=]/)[0].trim()
ParamName(p) ==
  LET s == Trim(p)
      cut == {i \in 1..Len(s) : s[i] \in {":", "="}}
  IN  IF cut = {} THEN s
      ELSE Trim(SubSeq(s, 1, (CHOOSE i \in cut : \A j \in cut : i <= j) - 1))

\* functionMatch[5] ? functionMatch[5].split(',').map(...) : []
FunctionParams(text) ==
  IF text = <<>> THEN <<>>
  ELSE [i \in 1..Len(Split(text, ",")) |-> ParamName(Split(text, ",")[i])]


\* (keyword\s+)? at the 0-based position p: the position after it
OptionalKeyword(t, keyword, p) ==
  IF KeywordSpaces(t, keyword, p) >= 0 THEN KeywordSpaces(t, keyword, p) ELSE p

\* \s+extends\s+ at the 0-based position e: the position after it, or -1
ExtendsAt(t, e) ==
  IF e < Len(t) /\ IsSpace(t[e + 1])
    THEN KeywordSpaces(t, StrExtends, SkipSpaces(t, e)) ELSE 0 - 1

\* the \w+ of (\s+extends\s+\w+)? at the 0-based position x, or None
ExtendsName(t, x) ==
  IF x >= 0 /\ SkipWord(t, x) > x THEN Some(Substring(t, x, SkipWord(t, x))) ELSE None

\* class\s+ ended at p and (\w+) at e
ClassNameAt(t, p, e) ==
  IF p < 0 \/ e = p THEN None
  ELSE Some([name |-> Substring(t, p, e), extends |-> ExtendsName(t, ExtendsAt(t, e))])

ClassAt(t, p) == ClassNameAt(t, p, IF p >= 0 THEN SkipWord(t, p) ELSE 0 - 1)

\* /^(export\s+)?(abstract\s+)?class\s+(\w+)(\s+extends\s+\w+)?(\s+implements\s+[\w,\s]+)?/
ClassMatch(t) ==
  ClassAt(t, KeywordSpaces(t, StrClass,
               OptionalKeyword(t, StrAbstract, OptionalKeyword(t, StrExport, 0))))

VariableKeywords == <<StrConst, StrLet, StrVar>>

\* the (.+) of (\s*[:=]\s*(.+))? at the 0-based position q, or None
InitialValueAt(t, q) ==
  IF q < Len(t) /\ t[q + 1] \in {":", "="} /\ SkipSpaces(t, q + 1) < Len(t)
    THEN Some(SliceFrom(t, SkipSpaces(t, q + 1))) ELSE None

\* (const|let|var)\s+ ended at p and (\w+) at e
VariableNameAt(t, kind, p, e) ==
  IF e = p THEN None
  ELSE Some([kind |-> kind, name |-> Substring(t, p, e),
             initialValue |-> InitialValueAt(t, SkipSpaces(t, e))])

VariableAt(t, kind, p) == VariableNameAt(t, kind, p, SkipWord(t, p))

VariableOf(t, hit) ==
  IF hit = {} THEN None
  ELSE VariableAt(t, VariableKeywords[Min(hit)],
                  KeywordSpaces(t, VariableKeywords[Min(hit)], 0))

\* /^(const|let|var)\s+(\w+)(\s*[:=]\s*(.+))?/
VariableMatch(t) ==
  VariableOf(t, {k \in 1..3 : KeywordSpaces(t, VariableKeywords[k], 0) >= 0})

IsQuote(c) == c \in {"'", "\""}

\* \s+from\s+['"](.+)['"] with the single white-space character of the first
\* \s+ at the 0-based position p: the captured module, or None
FromClauseAt(t, p) ==
  LET f == IF p < Len(t) /\ IsSpace(t[p + 1]) THEN KeywordSpaces(t, StrFrom, p + 1) ELSE 0 - 1
      quotes == {j \in 1..Len(t) : IsQuote(t[j])}
      last == IF quotes = {} THEN 0 ELSE CHOOSE j \in quotes : \A i \in quotes : i <= j
  IN  IF f >= 0 /\ f < Len(t) /\ IsQuote(t[f + 1]) /\ last > f + 2
        THEN Some(SubSeq(t, f + 2, last - 1))
        ELSE None

\* the paths of import\s+(.+)\s+from: the start and the end of the first (.+);
\* import\s+, which ends at s0 at most, may give white space back to (.+)
ImportPaths(t, s0) ==
  {sp \in ((Len(StrImport) + 1)..s0) \X (0..Len(t)) :
     sp[2] > sp[1] /\ FromClauseAt(t, sp[2]) # None}

\* the path a greedy backtracking matcher finds first
BestPath(paths) ==
  CHOOSE sp \in paths :
    \A o \in paths : o[1] < sp[1] \/ (o[1] = sp[1] /\ o[2] <= sp[2])

ImportGroups(t, best) ==
  [items |-> Substring(t, best[1], best[2]), module |-> FromClauseAt(t, best[2])[1]]

ImportOf(t, paths) ==
  IF paths = {} THEN None ELSE Some(ImportGroups(t, BestPath(paths)))

\* /^import\s+(.+)\s+from\s+['"](.+)['"]/ : both (.+) are greedy
ImportMatch(t) ==
  IF KeywordSpaces(t, StrImport, 0) < 0 THEN None
  ELSE ImportOf(t, ImportPaths(t, KeywordSpaces(t, StrImport, 0)))

\* /^export\s+(default\s+)?(.+)/
ExportMatch(t) ==
  LET s0 == KeywordSpaces(t, StrExport, 0)
      d  == IF s0 >= 0 THEN KeywordSpaces(t, StrDefault, s0) ELSE 0 - 1
  IN  IF s0 < 0 \/ s0 >= Len(t) THEN None
      ELSE IF d >= 0 /\ d < Len(t)
        THEN Some([isDefault |-> TRUE, item |-> SliceFrom(t, d)])
        ELSE Some([isDefault |-> FALSE, item |-> SliceFrom(t, s0)])

\* /^(for|while|do)\s*\(/
LoopMatch(t) ==
  LET ks  == <<StrFor, StrWhile, StrDo>>
      hit == {k \in 1..3 :
                /\ StartsWith(t, ks[k])
                /\ SkipSpaces(t, Len(ks[k])) < Len(t)
                /\ t[SkipSpaces(t, Len(ks[k])) + 1] = "("}
  IN  IF hit = {} THEN None ELSE Some(ks[CHOOSE x \in hit : \A y \in hit : x <= y])

\* /^(if|else\s+if|else|switch|case)\s*[\(\{]?/ : the text of group 1
ConditionalMatch(t) ==
  LET ei == KeywordSpaces(t, StrElse, 0)
  IN  IF StartsWith(t, StrIf) THEN Some(StrIf)
      ELSE IF ei >= 0 /\ StartsWithAt(t, StrIf, ei) THEN Some(Substring(t, 0, ei + 2))
      ELSE IF StartsWith(t, StrElse) THEN Some(StrElse)
      ELSE IF StartsWith(t, StrSwitch) THEN Some(StrSwitch)
      ELSE IF StartsWith(t, StrCase) THEN Some(StrCase)
      ELSE None

\* trimmedLine.replace(/^\/\/\s*|\*\/|\*\s*/g, ''), from the 0-based position p
RECURSIVE StripCommentMarks(_, _)
StripCommentMarks(t, p) ==
  IF p >= Len(t) THEN <<>>
  ELSE IF p = 0 /\ StartsWith(t, StrSlashSlash) THEN StripCommentMarks(t, SkipSpaces(t, 2))
  ELSE IF StartsWithAt(t, StrStarSlash, p) THEN StripCommentMarks(t, p + 2)
  ELSE IF t[p + 1] = "*" THEN StripCommentMarks(t, SkipSpaces(t, p + 1))
  ELSE <<t[p + 1]>> \o StripCommentMarks(t, p + 1)

\* s.length > n ? s.substring(0, n) + '...' : s
Truncate(s, n) == IF Len(s) > n THEN Substring(s, 0, n) \o StrEllipsis ELSE s

\* s.charAt(0).toUpperCase() + s.slice(1)
Capitalize(s) == IF s = <<>> THEN s ELSE <<ToUpperChar(s[1])>> \o Tail(s)


(***************************************************************************)
(* Structural scanner: parseCode                                           *)
(***************************************************************************)
StrCodeComment == <<"C","o","d","e"," ","c","o","m","m","e","n","t">>

StrFunctionWith == <<"F","u","n","c","t","i","o","n"," ","w","i","t","h"," ">>

StrParameter == <<" ","p","a","r","a","m","e","t","e","r">>

StrPluralS == <<"s">>

StrClassDescription == <<"C","l","a","s","s">>

StrExtending == <<" ","e","x","t","e","n","d","i","n","g"," ">>

StrVariable == <<" ","v","a","r","i","a","b","l","e">>

StrInitializedWith == <<" ","i","n","i","t","i","a","l","i","z","e","d"," ","w","i","t","h"," ">>

StrImportFrom == <<"I","m","p","o","r","t"," ","f","r","o","m"," ">>

StrDefaultPrefix == <<"D","e","f","a","u","l","t"," ">>

StrExportDescription == <<"e","x","p","o","r","t">>

StrLoop == <<" ","l","o","o","p">>

StrLoopStatement == <<" ","l","o","o","p"," ","s","t","a","t","e","m","e","n","t">>

StrStatement == <<" ","s","t","a","t","e","m","e","n","t">>

StrConditional == <<" ","c","o","n","d","i","t","i","o","n","a","l">>

\* a CodeElement; params, isAsync, description, complexity and children are optional
CodeElement(id, type, name, line, column, endColumn, scope, params, isAsync,
            description, complexity, children) ==
  [id |-> id, type |-> type, name |-> name, line |-> line, column |-> column,
   endLine |-> line, endColumn |-> endColumn, scope |-> scope, params |-> params,
   isAsync |-> isAsync, description |-> description, complexity |-> complexity,
   children |-> children]

\* the locals of parseCode before the first line
ParseStart == [elements |-> <<>>, currentScope |-> StrGlobal, elementId |-> 0,
               raised |-> FALSE]

PushElement(st, e) ==
  [st EXCEPT !.elements = Append(@, e), !.elementId = @ + 1]

\* the exception of calculateComplexity leaves parseCode
Raise(st) == [st EXCEPT !.raised = TRUE]

CommentStep(st, line, trimmedLine, lineIndex) ==
  PushElement(st,
    CodeElement(<<"comment", st.elementId>>, "comment",
                Substring(StripCommentMarks(trimmedLine, 0), 0, 50)
                  \o (IF Len(trimmedLine) > 50 THEN StrEllipsis ELSE <<>>),
                lineIndex + 1, IndexOf(line, trimmedLine) + 1, Len(line),
                st.currentScope, None, None, Some(StrCodeComment), None, None))

FunctionElement(st, line, lineIndex, m, params, complexity) ==
  IF complexity.raised THEN Raise(st)
  ELSE [PushElement(st,
          CodeElement(<<"function", st.elementId>>, "function", m.name,
                      lineIndex + 1, IndexOf(line, m.name) + 1, Len(line),
                      st.currentScope, Some(params), Some(m.async1 \/ m.async4),
                      Some(StrFunctionWith \o NatToString(Len(params)) \o StrParameter
                             \o (IF Len(params) # 1 THEN StrPluralS ELSE <<>>)),
                      Some(complexity.value), None))
        EXCEPT !.currentScope = m.name]

FunctionStep(st, line, trimmedLine, lineIndex) ==
  IF st.raised \/ FunctionMatch(trimmedLine) = None THEN st
  ELSE FunctionElement(st, line, lineIndex, FunctionMatch(trimmedLine)[1],
                       FunctionParams(FunctionMatch(trimmedLine)[1].params),
                       calculateComplexity(trimmedLine))

ClassElement(st, line, lineIndex, m, complexity) ==
  IF complexity.raised THEN Raise(st)
  ELSE [PushElement(st,
          CodeElement(<<"class", st.elementId>>, "class", m.name,
                      lineIndex + 1, IndexOf(line, m.name) + 1, Len(line),
                      st.currentScope, None, None,
                      Some(StrClassDescription
                             \o (IF m.extends # None
                                   THEN StrExtending \o m.extends[1] ELSE <<>>)),
                      Some(complexity.value), Some(<<>>)))
        EXCEPT !.currentScope = m.name]

ClassStep(st, line, trimmedLine, lineIndex) ==
  IF st.raised \/ ClassMatch(trimmedLine) = None THEN st
  ELSE ClassElement(st, line, lineIndex, ClassMatch(trimmedLine)[1],
                    calculateComplexity(trimmedLine))

\* a variable element whose complexity starts at 0
VariableElementOfComplexityZero(st, line, lineIndex, m) ==
  PushElement(st,
    CodeElement(<<"variable", st.elementId>>, "variable", m.name,
                lineIndex + 1, IndexOf(line, m.name) + 1, Len(line),
                st.currentScope, None, None, Some(m.kind \o StrVariable),
                Some(0), None))

VariableElement(st, line, lineIndex, m) ==
  PushElement(st,
    CodeElement(<<"variable", st.elementId>>, "variable", m.name,
                lineIndex + 1, IndexOf(line, m.name) + 1, Len(line),
                st.currentScope, None, None,
                Some(m.kind \o StrVariable
                       \o (IF m.initialValue # None
                             THEN StrInitializedWith \o Truncate(m.initialValue[1], 20)
                             ELSE <<>>)),
                Some(1), None))

\* a variable branch that makes the variable the current scope
VariableStepOpeningScope(st, line, trimmedLine, lineIndex) ==
  IF st.raised \/ VariableMatch(trimmedLine) = None THEN st
  ELSE [VariableElement(st, line, lineIndex, VariableMatch(trimmedLine)[1])
          EXCEPT !.currentScope = VariableMatch(trimmedLine)[1].name]

VariableStep(st, line, trimmedLine, lineIndex) ==
  IF st.raised \/ VariableMatch(trimmedLine) = None THEN st
  ELSE VariableElement(st, line, lineIndex, VariableMatch(trimmedLine)[1])

ImportElement(st, line, lineIndex, m) ==
  PushElement(st,
    CodeElement(<<"import", st.elementId>>, "import", Truncate(m.items, 30),
                lineIndex + 1, 1, Len(line), StrGlobal, None, None,
                Some(StrImportFrom \o m.module), Some(1), None))

ImportStep(st, line, trimmedLine, lineIndex) ==
  IF st.raised \/ ImportMatch(trimmedLine) = None THEN st
  ELSE ImportElement(st, line, lineIndex, ImportMatch(trimmedLine)[1])

ExportElement(st, line, lineIndex, m) ==
  PushElement(st,
    CodeElement(<<"export", st.elementId>>, "export", Truncate(m.item, 30),
                lineIndex + 1, 1, Len(line), st.currentScope, None, None,
                Some((IF m.isDefault THEN StrDefaultPrefix ELSE <<>>)
                       \o StrExportDescription),
                Some(1), None))

ExportStep(st, line, trimmedLine, lineIndex) ==
  IF st.raised \/ ExportMatch(trimmedLine) = None THEN st
  ELSE ExportElement(st, line, lineIndex, ExportMatch(trimmedLine)[1])

LoopElement(st, line, lineIndex, loopType, complexity) ==
  IF complexity.raised THEN Raise(st)
  ELSE PushElement(st,
         CodeElement(<<"loop", st.elementId>>, "loop", loopType \o StrLoop,
                     lineIndex + 1, 1, Len(line), st.currentScope, None, None,
                     Some(Capitalize(loopType) \o StrLoopStatement),
                     Some(complexity.value), None))

LoopStep(st, line, trimmedLine, lineIndex) ==
  IF st.raised \/ LoopMatch(trimmedLine) = None THEN st
  ELSE LoopElement(st, line, lineIndex, LoopMatch(trimmedLine)[1],
                   calculateComplexity(trimmedLine))

ConditionalElement(st, line, lineIndex, conditionalType, complexity) ==
  IF complexity.raised THEN Raise(st)
  ELSE PushElement(st,
         CodeElement(<<"conditional", st.elementId>>, "conditional",
                     conditionalType \o StrStatement,
                     lineIndex + 1, 1, Len(line), st.currentScope, None, None,
                     Some(Capitalize(conditionalType) \o StrConditional),
                     Some(complexity.value), None))

ConditionalStep(st, line, trimmedLine, lineIndex) ==
  IF st.raised \/ ConditionalMatch(trimmedLine) = None THEN st
  ELSE ConditionalElement(st, line, lineIndex, ConditionalMatch(trimmedLine)[1],
                          calculateComplexity(trimmedLine))

\* the body of lines.forEach for one line
ParseLine(st, line, lineIndex) ==
  LET trimmedLine == Trim(line)
      isComment == StartsWith(trimmedLine, StrSlashSlash)
                     \/ StartsWith(trimmedLine, StrSlashStar)
  IN  IF st.raised THEN st
      ELSE IF trimmedLine = <<>> \/ isComment
        THEN IF isComment THEN CommentStep(st, line, trimmedLine, lineIndex) ELSE st
      ELSE ConditionalStep(
             LoopStep(
               ExportStep(
                 ImportStep(
                   VariableStep(
                     ClassStep(
                       FunctionStep(st, line, trimmedLine, lineIndex),
                       line, trimmedLine, lineIndex),
                     line, trimmedLine, lineIndex),
                   line, trimmedLine, lineIndex),
                 line, trimmedLine, lineIndex),
               line, trimmedLine, lineIndex),
             line, trimmedLine, lineIndex)

RECURSIVE ParseLines(_, _, _)
ParseLines(st, lines, lineIndex) ==
  IF lineIndex >= Len(lines) THEN st
  ELSE ParseLines(ParseLine(st, lines[lineIndex + 1], lineIndex), lines, lineIndex + 1)

\* Array.prototype.sort with a consistent comparator is stable: the element
\* at position i moves behind those that compare smaller and those that
\* compare equal and stand before it.  Compare(a, b) < 0 puts a first.
ComesBefore(comparison, j, i) == comparison < 0 \/ (comparison = 0 /\ j < i)

StableSort(seq, Compare(_, _)) ==
  LET rank == [i \in 1..Len(seq) |->
                 Cardinality({j \in 1..Len(seq) :
                                ComesBefore(Compare(seq[j], seq[i]), j, i)})]
  IN  [k \in 1..Len(seq) |-> seq[CHOOSE i \in 1..Len(seq) : rank[i] = k - 1]]

CompareLine(a, b) == a.line - b.line

\* the return of parseCode: elements.sort((a, b) => a.line - b.line)
ParseResult(st) ==
  IF st.raised THEN [raised |-> TRUE, elements |-> <<>>]
  ELSE [raised |-> FALSE, elements |-> StableSort(st.elements, CompareLine)]

\* a scanner whose element counter outlives the call
parseCodeKeepingCounter(sourceCode) ==
  ParseResult(ParseLines([ParseStart EXCEPT !.elementId = scanCount],
                         Split(sourceCode, "\n"), 0))

\* parseCode(sourceCode): raised when an exception leaves it, else the elements
parseCode(sourceCode) == ParseResult(ParseLines(ParseStart, Split(sourceCode, "\n"), 0))


(***************************************************************************)
(* Navigation/search index: filterAndSortElements and performSearch        *)
(***************************************************************************)
\* the characters in the order String.prototype.localeCompare ranks them:
\* white space, punctuation, symbols, digits, letters
CollationOrder == <<" ","_","-",",",";",":","!","?",".","'","\"","(",")","[","]","{","}","@","*","/","\\","&","#","%","^","+","<","=",">","|","~","$","0","1","2","3","4","5","6","7","8","9","a","b","c","d","e","f","g","h","i","j","k","l","m","n","o","p","q","r","s","t","u","v","w","x","y","z">>

CollationWeights ==
  [c \in Range(CollationOrder) |->
     CHOOSE i \in 1..Len(CollationOrder) : CollationOrder[i] = c]

CollationWeight(c) ==
  IF ToLowerChar(c) \in DOMAIN CollationWeights
    THEN CollationWeights[ToLowerChar(c)] ELSE 0

\* a.localeCompare(b): the letters first, then lower case before upper case
LocaleCompare(a, b) ==
  LET n == IF Len(a) < Len(b) THEN Len(a) ELSE Len(b)
      diff == {i \in 1..n : CollationWeight(a[i]) # CollationWeight(b[i])}
      caseDiff == {i \in 1..n : a[i] # b[i]}
  IN  IF diff # {}
        THEN LET i == CHOOSE x \in diff : \A y \in diff : x <= y
             IN  IF CollationWeight(a[i]) < CollationWeight(b[i]) THEN 0 - 1 ELSE 1
      ELSE IF Len(a) # Len(b) THEN (IF Len(a) < Len(b) THEN 0 - 1 ELSE 1)
      ELSE IF caseDiff # {}
        THEN LET i == CHOOSE x \in caseDiff : \A y \in caseDiff : x <= y
             IN  IF IsUpper(b[i]) THEN 0 - 1 ELSE 1
      ELSE 0

\* the text of an element type
TypeChars ==
  [function |-> StrFunction, class |-> StrClass, variable |-> Tail(StrVariable),
   comment |-> <<"c","o","m","m","e","n","t">>, import |-> StrImport, export |-> StrExport,
   loop |-> Tail(StrLoop), conditional |-> Tail(StrConditional)]

ElementTypes == {"function", "class", "variable", "comment", "import", "export", "loop", "conditional"}

\* a.complexity || 0
ComplexityOrZero(e) == IF e.complexity = None THEN 0 ELSE e.complexity[1]

\* the comparator handed to filtered.sort
CompareElements(a, b, settings) ==
  LET comparison ==
        CASE settings.sortBy = "name" -> LocaleCompare(a.name, b.name)
          [] settings.sortBy = "line" -> a.line - b.line
          [] settings.sortBy = "complexity" -> ComplexityOrZero(a) - ComplexityOrZero(b)
          [] settings.sortBy = "type" -> LocaleCompare(TypeChars[a.type], TypeChars[b.type])
          [] OTHER -> 0
  IN  IF settings.sortOrder = "desc" THEN 0 - comparison ELSE comparison

\* seq.filter(keep)
RECURSIVE FilterSeq(_, _)
FilterSeq(seq, keep) ==
  IF seq = <<>> THEN <<>>
  ELSE (IF Head(seq) \in keep THEN <<Head(seq)>> ELSE <<>>) \o FilterSeq(Tail(seq), keep)

\* the predicate of the search filter
MatchesQuery(element, searchQuery) ==
  \/ Includes(ToLowerCase(element.name), ToLowerCase(searchQuery))
  \/ /\ element.description # None
     /\ Includes(ToLowerCase(element.description[1]), ToLowerCase(searchQuery))

\* the types in the order of their first element: the keys of `grouped`
RECURSIVE TypesInOrder(_, _)
TypesInOrder(seq, seen) ==
  IF seq = <<>> THEN <<>>
  ELSE IF Head(seq).type \in seen THEN TypesInOrder(Tail(seq), seen)
  ELSE <<Head(seq).type>> \o TypesInOrder(Tail(seq), seen \cup {Head(seq).type})

StrGroupOf == <<"G","r","o","u","p"," ","o","f"," ">>

GroupElement(type, members) ==
  [id |-> <<"group", type>>, type |-> type,
   name |-> Capitalize(TypeChars[type]) \o StrPluralS \o <<" ", "(">>
              \o NatToString(Len(members)) \o <<")">>,
   line |-> 0, column |-> 0, endLine |-> 0, endColumn |-> 0, scope |-> StrGroup,
   params |-> None, isAsync |-> None,
   description |-> Some(StrGroupOf \o NatToString(Len(members)) \o <<" ">>
                          \o TypeChars[type] \o StrPluralS),
   complexity |-> None, children |-> Some(members)]

\* elements.filter(el => settings.filterTypes.includes(el.type)), when types are chosen
FilterByType(elements, settings) ==
  IF settings.filterTypes # {}
    THEN FilterSeq(elements, {e \in Range(elements) : e.type \in settings.filterTypes})
    ELSE elements

\* the search filter, when there is a query
FilterByQuery(filtered, searchQuery) ==
  IF searchQuery # <<>>
    THEN FilterSeq(filtered, {e \in Range(filtered) : MatchesQuery(e, searchQuery)})
    ELSE filtered

\* the comparator of the ascending order
CompareAscending(a, b, settings) ==
  CompareElements(a, b, [settings EXCEPT !.sortOrder = "asc"])

\* a descending order made by reversing the ascending one
SortThenReverse(filtered, settings) ==
  LET Compare(a, b) == CompareAscending(a, b, settings)
      Reverse(s) == [k \in 1..Len(s) |-> s[Len(s) + 1 - k]]
  IN  IF settings.sortOrder = "desc"
        THEN Reverse(StableSort(filtered, Compare))
        ELSE StableSort(filtered, Compare)

\* filtered.sort(...)
SortElements(filtered, settings) ==
  LET Compare(a, b) == CompareElements(a, b, settings)
  IN  StableSort(filtered, Compare)

\* Object.entries(grouped) mapped to the group elements
\* the last place of the run of one type that starts at place i
RunEnd(filtered, i) ==
  Min({j \in i..Len(filtered) :
         j = Len(filtered) \/ filtered[j + 1].type # filtered[i].type})

RunGroups(filtered, starts) ==
  [k \in 1..Len(starts) |->
     GroupElement(filtered[starts[k]].type,
                  SubSeq(filtered, starts[k], RunEnd(filtered, starts[k])))]

\* a grouping that opens a group wherever the type changes in the sorted list
GroupByRuns(filtered, types) ==
  RunGroups(filtered,
            FilterSeq([i \in 1..Len(filtered) |-> i],
                      {i \in 1..Len(filtered) :
                         i = 1 \/ filtered[i - 1].type # filtered[i].type}))

GroupByType(filtered, types) ==
  [k \in 1..Len(types) |->
     GroupElement(types[k], FilterSeq(filtered, {e \in Range(filtered) :
                                                   e.type = types[k]}))]

\* the return of filterAndSortElements and what became of the argument array
IndexResult(elements, filtered, settings, copied) ==
  [visible |-> IF settings.groupByType
                 THEN GroupByType(filtered, TypesInOrder(filtered, {})) ELSE filtered,
   elements |-> IF copied THEN elements ELSE filtered,
   same |-> ~copied /\ ~settings.groupByType]

\* filterAndSortElements(elements) under settings and searchQuery.
\* visible: the array returned; elements: the argument array afterwards
\* (filtered.sort sorts it in place when no filter made a copy);
\* same: the array returned is the argument array itself
filterAndSortElements(elements, settings, searchQuery) ==
  IndexResult(elements,
              SortElements(FilterByQuery(FilterByType(elements, settings), searchQuery),
                           settings),
              settings, settings.filterTypes # {} \/ searchQuery # <<>>)


\* the fixed top-N of the search results
SearchResultLimit == 20

\* typeBoosts[element.type] || 0
TypeBoost(type) ==
  CASE type = "function" -> 20
    [] type = "class" -> 15
    [] type = "variable" -> 10
    [] type = "import" -> 5
    [] type = "export" -> 5
    [] OTHER -> 0

\* context || other
StrIn == <<"I","n"," ">>

StrParameterColon == <<"P","a","r","a","m","e","t","e","r",":"," ">>

\* the params.forEach of performSearch from the k-th parameter on
RECURSIVE SearchParams(_, _, _, _)
SearchParams(acc, params, k, lowerQuery) ==
  IF k > Len(params) THEN acc
  ELSE IF Includes(ToLowerCase(params[k]), lowerQuery)
    THEN SearchParams([score |-> acc.score + 10, matches |-> acc.matches + 1,
                       context |-> OrElse(acc.context, StrParameterColon \o params[k])],
                      params, k + 1, lowerQuery)
  ELSE SearchParams(acc, params, k + 1, lowerQuery)

\* the name match of performSearch
ScoreName(acc, element, lowerQuery) ==
  IF Includes(ToLowerCase(element.name), lowerQuery)
    THEN [score |-> acc.score
                      + (IF ToLowerCase(element.name) = lowerQuery THEN 100 ELSE 50),
          matches |-> acc.matches + 1, context |-> element.name]
    ELSE acc

\* the description match
ScoreDescription(acc, element, lowerQuery) ==
  IF element.description # None /\ element.description[1] # <<>>
       /\ Includes(ToLowerCase(element.description[1]), lowerQuery)
    THEN [score |-> acc.score + 25, matches |-> acc.matches + 1,
          context |-> OrElse(acc.context, element.description[1])]
    ELSE acc

\* the scope match
ScoreScope(acc, element, lowerQuery) ==
  IF Includes(ToLowerCase(element.scope), lowerQuery)
    THEN [score |-> acc.score + 15, matches |-> acc.matches + 1,
          context |-> OrElse(acc.context, StrIn \o element.scope)]
    ELSE acc

\* the parameter match
ScoreParams(acc, element, lowerQuery) ==
  IF element.params # None
    THEN SearchParams(acc, element.params[1], 1, lowerQuery)
    ELSE acc

\* the type boost and the SearchResult
ScoreResult(acc, element) ==
  [element |-> element, matches |-> acc.matches,
   score |-> acc.score + TypeBoost(element.type),
   context |-> OrElse(acc.context, element.name)]

\* the body of codeElements.forEach in performSearch: score, matches, context
ScoreElement(element, lowerQuery) ==
  ScoreResult(
    ScoreParams(
      ScoreScope(
        ScoreDescription(
          ScoreName([score |-> 0, matches |-> 0, context |-> <<>>], element, lowerQuery),
          element, lowerQuery),
        element, lowerQuery),
      element, lowerQuery),
    element)

CompareScore(a, b) == b.score - a.score

\* the sorted results, all of them
AllResults(scored) ==
  StableSort(FilterSeq(scored, {r \in Range(scored) : r.score > 0}), CompareScore)

\* results.sort((a, b) => b.score - a.score).slice(0, 20) of those with score > 0
TopResults(scored) ==
  Substring(StableSort(FilterSeq(scored, {r \in Range(scored) : r.score > 0}),
                       CompareScore),
            0, SearchResultLimit)

\* performSearch(query) over codeElements
performSearch(query, codeElements) ==
  IF Trim(query) = <<>> THEN <<>>
  ELSE TopResults([i \in 1..Len(codeElements) |->
                     ScoreElement(codeElements[i], ToLowerCase(query))])


(***************************************************************************)
(* The NavigationHelper component: state, inputs and bounds                *)
(***************************************************************************)
VARIABLES
  code,                 \* the code prop
  parseTimers,          \* the pending setTimeout callbacks of the parsing effect, each with its code
  scanLog,              \* the calls of parseCode so far, in order: text and outcome
  codeElements,         \* useState: the array parseCode returned
  filteredElements,     \* useState: the visible sequence
  filteredSame,         \* filteredElements is the codeElements array itself
  selectedElement,      \* useState: None or Some(element)
  searchQuery,          \* useState
  searchResults,        \* useState
  navigationHistory,    \* useState
  currentHistoryIndex,  \* useState
  breadcrumbs,          \* useState
  settings,             \* useState: sortBy, sortOrder, filterTypes, groupByType
  navigationMode,       \* the navigationMode prop
  keyClosure,           \* what the registered keydown listener captured
  lastOp                \* the operation of the last step, with its arguments

\* the BrailleOutput component
VARIABLES
  brailleCode,          \* the code prop
  brailleSettings,      \* useState: the settings
  customContractions,   \* useState: the user's contraction table
  brailleText,          \* useState: the last translation
  stats,                \* useState: the statistics of the last translation
  conversion            \* the call of convertToBraille in progress

brailleVars == <<brailleCode, brailleSettings, customContractions, brailleText, stats,
                 conversion>>

\* the audio of the CodeEditor component
VARIABLES
  audioEnabled,         \* the audioEnabled prop
  audioVolume,          \* useState
  playbackSpeed,        \* useState
  spatialAudio,         \* useState
  synth,                \* synthRef.current: None or the synthesizer's configuration
  suspended,            \* the calls of playAudioForElement waiting for Tone.start()
  triggered,            \* the last triggerAttackRelease: None or its arguments
  lastAudio             \* the audio operation of the last step, with how it ended

audioVars == <<audioEnabled, audioVolume, playbackSpeed, spatialAudio, synth, suspended,
               triggered, lastAudio>>

\* the server: the analytics of the sessions
VARIABLES
  codeAnalytics,        \* the Map codeAnalytics: for each session id None or Some(analytics)
  arrivals,             \* how many navigation events the server has recorded for each session
  lastRequest           \* the request of the last step, with the status of its reply

serverVars == <<codeAnalytics, arrivals, lastRequest>>

\* the client of the seismic data stream
VARIABLES
  sockets,              \* every WebSocket connect() has made: its readyState and who closed it
  ws,                   \* this.ws: None or Some(the index of a socket)
  reconnectAttempts,    \* this.reconnectAttempts
  reconnectTimers,      \* how many setTimeout callbacks of handleDisconnect are pending
  stopped,              \* disconnect() was called after the last connect() of the application
  lastStream            \* the operation of the last step, with what it did

streamVars == <<sockets, ws, reconnectAttempts, reconnectTimers, stopped, lastStream>>

\* the server and the stream client, which no component touches
outsideVars == <<serverVars, streamVars>>

\* the variables of the other components, which NavigationHelper never touches
besideNav == <<brailleVars, audioVars, outsideVars>>

navVars == <<code, parseTimers, scanCount, scanLog, codeElements, filteredElements,
             filteredSame, selectedElement, searchQuery, searchResults,
             navigationHistory, currentHistoryIndex, breadcrumbs, settings,
             navigationMode, keyClosure, lastOp>>

\* the session ids the server is asked about: one that is created, and in
\* requests also one that never is and a missing one
SessionIds == {"s1"}

NoRequest == [op |-> "none"]

NoStreamOp == [op |-> "none"]

\* bounds of the model
MaxTimers == 1

MaxSuspended == 1

MaxPanners == 2

MaxScans == 2

MaxHistory == 2

MaxCursor == 3

LineNote == <<"/","/"," ","n","o","t","e">>

LineConstTotal == <<"c","o","n","s","t"," ","t","o","t","a","l"," ","="," ","1">>

LineExportDefault == <<"e","x","p","o","r","t"," ","d","e","f","a","u","l","t"," ","t","o","t","a","l">>

LineLetAdd == <<" "," ","l","e","t"," ","a","d","d">>

LineFunctionAdd == <<"f","u","n","c","t","i","o","n"," ","a","d","d","(","a",","," ","b",")"," ","{">>

LineIf == <<"i","f"," ","(","t","o","t","a","l",")"," ","{">>

LineLetB == <<"l","e","t"," ","b">>

LineCommentA == <<"/","/"," ","a">>

LineLetA == <<"l","e","t"," ","a">>

LineExportA == <<"e","x","p","o","r","t"," ","a">>

TextEmpty == <<>>

TextPlain == JoinLines(<<LineNote, LineConstTotal, LineExportDefault>>)

TextLet == JoinLines(<<LineLetAdd, LineConstTotal>>)

TextFunctionAdd == LineFunctionAdd

TextMixed == JoinLines(<<LineConstTotal, LineIf>>)

\* four elements, three of one name, two of one type
TextTies == JoinLines(<<LineLetB, LineCommentA, LineLetA, LineExportA>>)

\* the texts whose elements the list settings are tried on
IndexTexts == {TextPlain, TextTies}

\* the line n times: more elements than the search returns
LongText(line, n) == JoinLines([i \in 1..n |-> line])

\* the texts whose elements are searched
SearchTexts == {TextPlain, TextTies, LongText(LineLetA, SearchResultLimit + 2)}

\* the queries of the search box: blank, names in either case, a word of the
\* descriptions, the scope, and one that occurs nowhere
SearchQueries == {<<>>, <<" ">>, <<"a">>, <<"A">>, <<"t","o","t","a","l">>, <<"l","e","t">>, <<"g","l","o","b","a","l">>, <<"z","z">>}

\* the source texts the editor supplies
Texts == {TextEmpty, TextPlain, TextFunctionAdd, TextMixed}

\* the search box inputs
Queries == {<<>>, <<"t","o","t","a","l">>, <<"A">>}

\* the queries typed while navigating
NavQueries == {<<>>, <<"t","o","t","a","l">>}

SortKeys == {"name", "line", "complexity", "type"}

SortOrders == {"asc", "desc"}

NavigationModes == {"keyboard", "voice", "gesture"}

DefaultSettings == [sortBy |-> "line", sortOrder |-> "asc", filterTypes |-> {},
                    groupByType |-> FALSE]

\* the objects of one scan carry the identity of that scan
WithRef(elements, n) ==
  [i \in 1..Len(elements) |-> [ref |-> n] @@ elements[i]]


(***************************************************************************)
(* The NavigationHelper component: effects                                 *)
(***************************************************************************)
OtherOp == [op |-> "other"]

\* the step ran filterAndSortElements on the codeElements of the state before
IndexOp == [op |-> "index"]

\* the closure a listener registered by the render of the next state holds
FreshClosure == [currentHistoryIndex |-> currentHistoryIndex']

\* the effect on [searchQuery, codeElements]: setSearchResults(performSearch(...))
\* with its result, or setSearchResults([])
SearchEffect(newQuery, results, searchToo) ==
  IF searchToo /\ newQuery # <<>>
    THEN searchResults' = results
    ELSE searchResults' = IF searchToo THEN <<>> ELSE searchResults

\* the effect on [codeElements, settings, searchQuery] with the result f of
\* filterAndSortElements, then the search effect, then the keydown effect on
\* [navigationMode, filteredElements, selectedElement]
IndexEffect(f, newArray, newQuery, searchToo) ==
  /\ codeElements' = f.elements
  /\ filteredElements' = f.visible
  /\ filteredSame' = f.same
  /\ SearchEffect(newQuery, performSearch(newQuery, f.elements), searchToo)
  /\ keyClosure' = IF newArray \/ ~(f.same /\ filteredSame)
                        \/ selectedElement' # selectedElement
                        \/ navigationMode' # navigationMode
                     THEN FreshClosure ELSE keyClosure

\* The effects that follow a change of codeElements, settings or searchQuery,
\* run for the array elements (newArray: it is not the array of the previous
\* state).  filterAndSortElements may sort the array in place before
\* performSearch reads it.
RunEffects(elements, newArray, newSettings, newQuery, searchToo) ==
  IndexEffect(filterAndSortElements(elements, newSettings, newQuery),
              newArray, newQuery, searchToo)

(***************************************************************************)
(* The NavigationHelper component: text changes and scans                  *)
(***************************************************************************)
\* the code prop changes; the parsing effect schedules parseCode in 500 ms
SetCode(t) ==
  /\ t # code
  /\ t # <<>> => Len(parseTimers) < MaxTimers
  /\ code' = t
  /\ parseTimers' = IF t # <<>> THEN Append(parseTimers, t) ELSE parseTimers
  /\ lastOp' = OtherOp
  /\ UNCHANGED besideNav
  /\ UNCHANGED <<scanCount, scanLog, codeElements, filteredElements, filteredSame,
                 selectedElement, searchQuery, searchResults, navigationHistory,
                 currentHistoryIndex, breadcrumbs, settings, navigationMode,
                 keyClosure>>

\* the timer callback for the text t, where parseCode(t) ended as r
ScanTimeout(t, r) ==
  /\ Len(scanLog) < MaxScans
  /\ parseTimers' = Tail(parseTimers)
  /\ scanLog' = Append(scanLog, [text |-> t, result |-> r])
  /\ lastOp' = OtherOp
  /\ UNCHANGED besideNav
  /\ UNCHANGED <<code, selectedElement, searchQuery, navigationHistory,
                 currentHistoryIndex, breadcrumbs, settings, navigationMode>>
  /\ IF r.raised
       THEN \* the exception leaves the timer callback: nothing is set
            UNCHANGED <<scanCount, codeElements, filteredElements, filteredSame,
                        searchResults, keyClosure>>
       ELSE /\ scanCount' = scanCount + 1
            /\ RunEffects(WithRef(r.elements, scanCount + 1), TRUE,
                          settings, searchQuery, TRUE)

\* the oldest timer fires: parseCode(code) of the render that scheduled it
ParseTimeout ==
  /\ parseTimers # <<>>
  /\ ScanTimeout(Head(parseTimers), parseCode(Head(parseTimers)))

(***************************************************************************)
(* The NavigationHelper component: navigation                              *)
(***************************************************************************)
\* codeElements.find(e => e.name === element.scope)
ScopeElement(element) ==
  LET hit == {i \in 1..Len(codeElements) : codeElements[i].name = element.scope}
  IN  IF hit = {} THEN None
      ELSE Some(codeElements[CHOOSE i \in hit : \A j \in hit : i <= j])

\* breadcrumbs that look the scope up whatever it is
newBreadcrumbsOfAnyScope(element) == ScopeElement(element) \o <<element>>

newBreadcrumbs(element) ==
  (IF element.scope # StrGlobal /\ element.scope # StrGroup
     THEN ScopeElement(element) ELSE <<>>) \o <<element>>

\* navigateToElement(element, action) of a render whose currentHistoryIndex
\* was capturedIndex; the updaters run on the current state.  op is what the
\* step is recorded as.
navigateToElementAs(element, action, capturedIndex, op) ==
  /\ currentHistoryIndex < MaxCursor
  /\ Len(Substring(navigationHistory, 0, capturedIndex + 1)) < MaxHistory
  /\ selectedElement' = Some(element)
  /\ navigationHistory' = Substring(navigationHistory, 0, capturedIndex + 1)
                            \o <<[element |-> element, action |-> action]>>
  /\ currentHistoryIndex' = currentHistoryIndex + 1
  /\ breadcrumbs' = newBreadcrumbs(element)
  /\ keyClosure' = IF Some(element) # selectedElement THEN FreshClosure ELSE keyClosure
  /\ lastOp' = op
  /\ UNCHANGED besideNav
  /\ UNCHANGED <<code, parseTimers, scanCount, scanLog, codeElements, filteredElements,
                 filteredSame, searchQuery, searchResults, settings, navigationMode>>

navigateToElement(element, action, capturedIndex) ==
  navigateToElementAs(element, action, capturedIndex,
                      [op |-> "navigateTo", element |-> element, action |-> action])

\* a jump that finds the element navigates to it; one that finds none returns
Jump(found, capturedIndex, request) ==
  IF found # None
    THEN navigateToElementAs(found[1], "jump", capturedIndex,
                             [op |-> "navigateTo", element |-> found[1],
                              action |-> "jump", jump |-> request])
    ELSE /\ lastOp' = [op |-> "jumpMissed", jump |-> request]
         /\ UNCHANGED besideNav
         /\ UNCHANGED <<code, parseTimers, scanCount, scanLog, codeElements,
                        filteredElements, filteredSame, selectedElement, searchQuery,
                        searchResults, navigationHistory, currentHistoryIndex,
                        breadcrumbs, settings, navigationMode, keyClosure>>

\* array.find(keep): the first element of the array that keep holds
Find(array, keep) ==
  IF keep = {} THEN None ELSE Some(FilterSeq(array, keep)[1])

\* jumpToLine(lineNumber): codeElements.find(e => e.line === lineNumber)
jumpToLine(lineNumber, capturedIndex) ==
  Jump(Find(codeElements, {e \in Range(codeElements) : e.line = lineNumber}),
       capturedIndex, [by |-> "line", line |-> lineNumber])

\* jumpToType(type): the first of codeElements.filter(e => e.type === type)
jumpToType(type, capturedIndex) ==
  Jump(Find(codeElements, {e \in Range(codeElements) : e.type = type}),
       capturedIndex, [by |-> "type", type |-> type])

\* navigateHistory(direction) of a render with the given index and history
navigateHistory(direction, capturedIndex, capturedHistory) ==
  LET newIndex == IF direction = "back"
                    THEN (IF capturedIndex - 1 > 0 THEN capturedIndex - 1 ELSE 0)
                    ELSE (IF Len(capturedHistory) - 1 < capturedIndex + 1
                            THEN Len(capturedHistory) - 1 ELSE capturedIndex + 1)
      moves == newIndex # capturedIndex /\ newIndex + 1 \in 1..Len(capturedHistory)
  IN  /\ currentHistoryIndex' = IF moves THEN newIndex ELSE currentHistoryIndex
      /\ selectedElement' = IF moves THEN Some(capturedHistory[newIndex + 1].element)
                            ELSE selectedElement
      /\ keyClosure' = IF selectedElement' # selectedElement THEN FreshClosure
                       ELSE keyClosure
      /\ lastOp' = [op |-> "historyMove", direction |-> direction]
      /\ UNCHANGED besideNav
      /\ UNCHANGED <<code, parseTimers, scanCount, scanLog, codeElements,
                     filteredElements, filteredSame, searchQuery, searchResults,
                     navigationHistory, breadcrumbs, settings, navigationMode>>

\* a click on an item of the element list, shown when there are no results
ClickElement ==
  /\ searchResults = <<>>
  /\ \E i \in 1..Len(filteredElements) :
       navigateToElement(filteredElements[i], "navigate", currentHistoryIndex)

ClickSearchResult ==
  \E i \in 1..Len(searchResults) :
    navigateToElement(searchResults[i].element, "search", currentHistoryIndex)

ClickBreadcrumb ==
  \E i \in 1..Len(breadcrumbs) :
    navigateToElement(breadcrumbs[i], "navigate", currentHistoryIndex)

\* the back and forward buttons, rendered for a history longer than one
\* entry and disabled at the ends
ClickBack ==
  /\ Len(navigationHistory) > 1
  /\ ~(currentHistoryIndex <= 0)
  /\ navigateHistory("back", currentHistoryIndex, navigationHistory)

ClickForward ==
  /\ Len(navigationHistory) > 1
  /\ ~(currentHistoryIndex >= Len(navigationHistory) - 1)
  /\ navigateHistory("forward", currentHistoryIndex, navigationHistory)


(***************************************************************************)
(* The NavigationHelper component: the keydown listener                    *)
(***************************************************************************)
\* filteredElements.findIndex(e => e.id === selectedElement.id), 0-based
currentIndex ==
  LET hit == {i \in 1..Len(filteredElements) :
                selectedElement # None /\ filteredElements[i].id = selectedElement[1].id}
  IN  IF hit = {} THEN 0 - 1 ELSE (CHOOSE i \in hit : \A j \in hit : i <= j) - 1

\* the listener acts in keyboard mode on a non-empty list; its closure holds
\* the currentHistoryIndex of the render that registered it
KeyGuard == navigationMode = "keyboard" /\ filteredElements # <<>>

KeyArrowDown ==
  /\ KeyGuard
  /\ LET nextIndex == IF currentIndex + 1 < Len(filteredElements) - 1
                        THEN currentIndex + 1 ELSE Len(filteredElements) - 1
     IN  /\ nextIndex >= 0
         /\ navigateToElement(filteredElements[nextIndex + 1], "navigate",
                              keyClosure.currentHistoryIndex)

KeyArrowUp ==
  /\ KeyGuard
  /\ LET prevIndex == IF currentIndex - 1 > 0 THEN currentIndex - 1 ELSE 0
     IN  /\ prevIndex < Len(filteredElements)
         /\ navigateToElement(filteredElements[prevIndex + 1], "navigate",
                              keyClosure.currentHistoryIndex)

KeyEnter ==
  /\ KeyGuard
  /\ selectedElement # None
  /\ navigateToElement(selectedElement[1], "navigate", keyClosure.currentHistoryIndex)

KeyHome ==
  /\ KeyGuard
  /\ Len(filteredElements) > 0
  /\ navigateToElement(filteredElements[1], "navigate", keyClosure.currentHistoryIndex)

KeyEnd ==
  /\ KeyGuard
  /\ Len(filteredElements) > 0
  /\ navigateToElement(filteredElements[Len(filteredElements)], "navigate",
                       keyClosure.currentHistoryIndex)

\* Escape: setSearchQuery(''); setSearchResults([])
KeyEscape ==
  /\ KeyGuard
  /\ searchQuery' = <<>>
  /\ lastOp' = IF searchQuery # <<>> THEN IndexOp ELSE OtherOp
  /\ UNCHANGED besideNav
  /\ UNCHANGED <<code, parseTimers, scanCount, scanLog, selectedElement,
                 navigationHistory, currentHistoryIndex, breadcrumbs, settings,
                 navigationMode>>
  /\ IF searchQuery # <<>>
       THEN RunEffects(codeElements, FALSE, settings, <<>>, TRUE)
       ELSE /\ searchResults' = <<>>
            /\ UNCHANGED <<codeElements, filteredElements, filteredSame, keyClosure>>

(***************************************************************************)
(* The NavigationHelper component: the search box and the settings         *)
(***************************************************************************)
\* onChange of the search input
SetSearchQuery(q) ==
  /\ q # searchQuery
  /\ searchQuery' = q
  /\ lastOp' = IndexOp
  /\ UNCHANGED besideNav
  /\ UNCHANGED <<code, parseTimers, scanCount, scanLog, selectedElement,
                 navigationHistory, currentHistoryIndex, breadcrumbs, settings,
                 navigationMode>>
  /\ RunEffects(codeElements, FALSE, settings, q, TRUE)

\* setSettings(prev => ...): a new settings object, so the filter effect runs
SetSettings(newSettings) ==
  /\ settings' = newSettings
  /\ lastOp' = IndexOp
  /\ UNCHANGED besideNav
  /\ UNCHANGED <<code, parseTimers, scanCount, scanLog, selectedElement, searchQuery,
                 navigationHistory, currentHistoryIndex, breadcrumbs, navigationMode>>
  /\ RunEffects(codeElements, FALSE, newSettings, searchQuery, FALSE)

\* a type filter button; it is disabled while no element has the type
ToggleFilterType(type) ==
  /\ \E i \in 1..Len(codeElements) : codeElements[i].type = type
  /\ SetSettings([settings EXCEPT !.filterTypes =
                    IF type \in @ THEN @ \ {type} ELSE @ \cup {type}])

ClearFilters ==
  /\ settings.filterTypes # {}
  /\ SetSettings([settings EXCEPT !.filterTypes = {}])

SetSortBy(key) == SetSettings([settings EXCEPT !.sortBy = key])

SetSortOrder(order) == SetSettings([settings EXCEPT !.sortOrder = order])

ToggleGroupByType == SetSettings([settings EXCEPT !.groupByType = ~@])

\* the navigationMode prop changes: the keydown effect registers anew
SetNavigationMode(mode) ==
  /\ mode # navigationMode
  /\ navigationMode' = mode
  /\ keyClosure' = [currentHistoryIndex |-> currentHistoryIndex]
  /\ lastOp' = OtherOp
  /\ UNCHANGED besideNav
  /\ UNCHANGED <<code, parseTimers, scanCount, scanLog, codeElements, filteredElements,
                 filteredSame, selectedElement, searchQuery, searchResults,
                 navigationHistory, currentHistoryIndex, breadcrumbs, settings>>


(***************************************************************************)
(* The BrailleOutput component: tables and lookups                         *)
(*                                                                         *)
(* A Braille cell is written as the string of its raised dots ("124" is    *)
(* the cell of dots 1, 2 and 4, "0" the blank cell U+2800); the space and  *)
(* the new line stand for themselves.  A Braille text is a sequence of     *)
(* cells.                                                                  *)
(***************************************************************************)
\* brailleMappings[char].unicode
brailleMappings ==
  ("a" :> <<"1">>) @@ ("b" :> <<"12">>) @@ ("c" :> <<"14">>) @@ ("d" :> <<"145">>) @@
  ("e" :> <<"15">>) @@ ("f" :> <<"124">>) @@ ("g" :> <<"1245">>) @@ ("h" :> <<"125">>) @@
  ("i" :> <<"24">>) @@ ("j" :> <<"245">>) @@ ("k" :> <<"13">>) @@ ("l" :> <<"123">>) @@
  ("m" :> <<"134">>) @@ ("n" :> <<"1345">>) @@ ("o" :> <<"135">>) @@ ("p" :> <<"1234">>) @@
  ("q" :> <<"12345">>) @@ ("r" :> <<"1235">>) @@ ("s" :> <<"234">>) @@
  ("t" :> <<"2345">>) @@ ("u" :> <<"136">>) @@ ("v" :> <<"1236">>) @@
  ("w" :> <<"2456">>) @@ ("x" :> <<"1346">>) @@ ("y" :> <<"13456">>) @@
  ("z" :> <<"1356">>) @@ ("1" :> <<"1">>) @@ ("2" :> <<"12">>) @@ ("3" :> <<"14">>) @@
  ("4" :> <<"145">>) @@ ("5" :> <<"15">>) @@ ("6" :> <<"124">>) @@ ("7" :> <<"1245">>) @@
  ("8" :> <<"125">>) @@ ("9" :> <<"24">>) @@ ("0" :> <<"245">>) @@ ("(" :> <<"12356">>) @@
  (")" :> <<"23456">>) @@ ("[" :> <<"46","12356">>) @@ ("]" :> <<"46","23456">>) @@
  ("{" :> <<"456","12356">>) @@ ("}" :> <<"456","23456">>) @@ ("=" :> <<"46","13">>) @@
  ("+" :> <<"346">>) @@ ("-" :> <<"36">>) @@ ("*" :> <<"35">>) @@ ("/" :> <<"34">>) @@
  ("\\" :> <<"1256">>) @@ ("<" :> <<"4","126">>) @@ (">" :> <<"4","345">>) @@
  ("&" :> <<"12346">>) @@ ("|" :> <<"1256">>) @@ ("^" :> <<"45">>) @@
  ("~" :> <<"6","36">>) @@ ("!" :> <<"235">>) @@ ("@" :> <<"4","1">>) @@
  ("#" :> <<"3456">>) @@ ("$" :> <<"1246">>) @@ ("%" :> <<"146">>) @@
  ("\"" :> <<"236">>) @@ ("'" :> <<"3">>) @@ (":" :> <<"25">>) @@ (";" :> <<"23">>) @@
  ("," :> <<"2">>) @@ ("." :> <<"256">>) @@ ("?" :> <<"236">>) @@ (" " :> <<" ">>) @@
  ("\t" :> <<"0","0">>) @@ ("\n" :> <<"\n">>)

\* Object.entries(programmingContractions), in the order of the literal
programmingContractions ==
  << [word |-> <<"f","u","n","c","t","i","o","n">>, braille |-> <<"124","1345">>],
     [word |-> <<"r","e","t","u","r","n">>, braille |-> <<"1235","2345">>],
     [word |-> <<"c","l","a","s","s">>, braille |-> <<"14","123">>],
     [word |-> <<"p","u","b","l","i","c">>, braille |-> <<"1234","12">>],
     [word |-> <<"p","r","i","v","a","t","e">>, braille |-> <<"1234","1236">>],
     [word |-> <<"p","r","o","t","e","c","t","e","d">>, braille |-> <<"1234","2345">>],
     [word |-> <<"s","t","a","t","i","c">>, braille |-> <<"234","2345">>],
     [word |-> <<"c","o","n","s","t">>, braille |-> <<"14","234">>],
     [word |-> <<"l","e","t">>, braille |-> <<"123","2345">>],
     [word |-> <<"v","a","r">>, braille |-> <<"1236","1235">>],
     [word |-> <<"i","f">>, braille |-> <<"24","124">>],
     [word |-> <<"e","l","s","e">>, braille |-> <<"15","123">>],
     [word |-> <<"f","o","r">>, braille |-> <<"124","1235">>],
     [word |-> <<"w","h","i","l","e">>, braille |-> <<"2456","125">>],
     [word |-> <<"d","o">>, braille |-> <<"145","135">>],
     [word |-> <<"s","w","i","t","c","h">>, braille |-> <<"234","2456">>],
     [word |-> <<"c","a","s","e">>, braille |-> <<"14","1">>],
     [word |-> <<"b","r","e","a","k">>, braille |-> <<"12","13">>],
     [word |-> <<"c","o","n","t","i","n","u","e">>, braille |-> <<"14","2345">>],
     [word |-> <<"t","r","y">>, braille |-> <<"2345","1235">>],
     [word |-> <<"c","a","t","c","h">>, braille |-> <<"14","125">>],
     [word |-> <<"f","i","n","a","l","l","y">>, braille |-> <<"124","123">>],
     [word |-> <<"t","h","r","o","w">>, braille |-> <<"2345","125">>],
     [word |-> <<"n","e","w">>, braille |-> <<"1345","2456">>],
     [word |-> <<"d","e","l","e","t","e">>, braille |-> <<"145","123">>],
     [word |-> <<"t","h","i","s">>, braille |-> <<"2345","125">>],
     [word |-> <<"s","u","p","e","r">>, braille |-> <<"234","1234">>],
     [word |-> <<"e","x","t","e","n","d","s">>, braille |-> <<"15","1346">>],
     [word |-> <<"i","m","p","l","e","m","e","n","t","s">>, braille |-> <<"24","134">>],
     [word |-> <<"i","n","t","e","r","f","a","c","e">>, braille |-> <<"24","2345">>],
     [word |-> <<"e","n","u","m">>, braille |-> <<"15","1345">>],
     [word |-> <<"i","m","p","o","r","t">>, braille |-> <<"24","134">>],
     [word |-> <<"e","x","p","o","r","t">>, braille |-> <<"15","1346">>],
     [word |-> <<"f","r","o","m">>, braille |-> <<"124","134">>],
     [word |-> <<"a","s">>, braille |-> <<"1","234">>],
     [word |-> <<"d","e","f","a","u","l","t">>, braille |-> <<"145","124">>],
     [word |-> <<"a","s","y","n","c">>, braille |-> <<"1","234">>],
     [word |-> <<"a","w","a","i","t">>, braille |-> <<"1","2456">>],
     [word |-> <<"p","r","o","m","i","s","e">>, braille |-> <<"1234","134">>],
     [word |-> <<"u","n","d","e","f","i","n","e","d">>, braille |-> <<"136","1345">>],
     [word |-> <<"n","u","l","l">>, braille |-> <<"1345","123">>],
     [word |-> <<"t","r","u","e">>, braille |-> <<"2345","1235">>],
     [word |-> <<"f","a","l","s","e">>, braille |-> <<"124","123">>],
     [word |-> <<"b","o","o","l","e","a","n">>, braille |-> <<"12","123">>],
     [word |-> <<"s","t","r","i","n","g">>, braille |-> <<"234","2345">>],
     [word |-> <<"n","u","m","b","e","r">>, braille |-> <<"1345","134">>],
     [word |-> <<"o","b","j","e","c","t">>, braille |-> <<"135","12">>],
     [word |-> <<"a","r","r","a","y">>, braille |-> <<"1","1235">>],
     [word |-> <<"l","e","n","g","t","h">>, braille |-> <<"123","1245">>],
     [word |-> <<"p","u","s","h">>, braille |-> <<"1234","234">>],
     [word |-> <<"p","o","p">>, braille |-> <<"1234","135">>],
     [word |-> <<"s","h","i","f","t">>, braille |-> <<"234","125">>],
     [word |-> <<"u","n","s","h","i","f","t">>, braille |-> <<"136","234">>],
     [word |-> <<"s","l","i","c","e">>, braille |-> <<"234","123">>],
     [word |-> <<"s","p","l","i","c","e">>, braille |-> <<"234","1234">>],
     [word |-> <<"i","n","d","e","x","O","f">>, braille |-> <<"24","145">>],
     [word |-> <<"f","o","r","E","a","c","h">>, braille |-> <<"124","15">>],
     [word |-> <<"m","a","p">>, braille |-> <<"134","1">>],
     [word |-> <<"f","i","l","t","e","r">>, braille |-> <<"124","123">>],
     [word |-> <<"r","e","d","u","c","e">>, braille |-> <<"1235","145">>],
     [word |-> <<"f","i","n","d">>, braille |-> <<"124","145">>],
     [word |-> <<"c","o","n","s","o","l","e">>, braille |-> <<"14","135">>],
     [word |-> <<"l","o","g">>, braille |-> <<"123","1245">>],
     [word |-> <<"e","r","r","o","r">>, braille |-> <<"15","1235">>],
     [word |-> <<"w","a","r","n">>, braille |-> <<"2456","1235">>],
     [word |-> <<"d","e","b","u","g">>, braille |-> <<"145","12">>],
     [word |-> <<"d","o","c","u","m","e","n","t">>, braille |-> <<"145","14">>],
     [word |-> <<"w","i","n","d","o","w">>, braille |-> <<"2456","145">>],
     [word |-> <<"e","l","e","m","e","n","t">>, braille |-> <<"15","123">>],
     [word |-> <<"a","d","d","E","v","e","n","t","L","i","s","t","e","n","e","r">>, braille |-> <<"1","123">>],
     [word |-> <<"r","e","m","o","v","e","E","v","e","n","t","L","i","s","t","e","n","e","r">>, braille |-> <<"1235","123">>],
     [word |-> <<"g","e","t","E","l","e","m","e","n","t","B","y","I","d">>, braille |-> <<"1245","24">>],
     [word |-> <<"q","u","e","r","y","S","e","l","e","c","t","o","r">>, braille |-> <<"12345","234">>],
     [word |-> <<"c","r","e","a","t","e","E","l","e","m","e","n","t">>, braille |-> <<"14","15">>],
     [word |-> <<"a","p","p","e","n","d","C","h","i","l","d">>, braille |-> <<"1","14">>],
     [word |-> <<"r","e","m","o","v","e","C","h","i","l","d">>, braille |-> <<"1235","14">>],
     [word |-> <<"i","n","n","e","r","H","T","M","L">>, braille |-> <<"24","125">>],
     [word |-> <<"t","e","x","t","C","o","n","t","e","n","t">>, braille |-> <<"2345","14">>],
     [word |-> <<"s","e","t","A","t","t","r","i","b","u","t","e">>, braille |-> <<"234","1">>],
     [word |-> <<"g","e","t","A","t","t","r","i","b","u","t","e">>, braille |-> <<"1245","1">>],
     [word |-> <<"c","l","a","s","s","L","i","s","t">>, braille |-> <<"14","123">>],
     [word |-> <<"s","t","y","l","e">>, braille |-> <<"234","2345">>],
     [word |-> <<"s","e","t","T","i","m","e","o","u","t">>, braille |-> <<"234","2345">>],
     [word |-> <<"s","e","t","I","n","t","e","r","v","a","l">>, braille |-> <<"234","24">>],
     [word |-> <<"c","l","e","a","r","T","i","m","e","o","u","t">>, braille |-> <<"14","2345">>],
     [word |-> <<"c","l","e","a","r","I","n","t","e","r","v","a","l">>, braille |-> <<"14","24">>] >>

\* the cells the conversion writes by itself
CapitalIndicator == "6"

ReplacementCell == "123456"

NumberPrefix == "3456"

DecimalPoint == "46"

IndentMarker == "0"

LineNumberMark == <<"25", " ">>

MappedChars == DOMAIN brailleMappings

\* text[n] with a 0-based index: None when the index is past the end
CharAt(text, n) == IF n < Len(text) THEN Some(text[n + 1]) ELSE None

\* the complete-word test left out
AnyWord(nextChar) == TRUE

\* !nextChar || !nextChar.match(/[a-zA-Z0-9_]/)
CompleteWord(nextChar) == nextChar = None \/ ~IsWordChar(nextChar[1])

\* word.length >= maxLength
LongerOrEqual(length, maxLength) == length >= maxLength

\* word.length > maxLength
Longer(length, maxLength) == length > maxLength

\* the running longestMatch and maxLength of findLongestContraction
NoMatch == [longestMatch |-> None, maxLength |-> 0]

\* the entries of a table that start the text and end at the end of a word
Matching(entries, text, lowerText) ==
  {k \in 1..Len(entries) :
     /\ StartsWith(lowerText, entries[k].word)
     /\ CompleteWord(CharAt(text, Len(entries[k].word)))}

\* maxLength when the for-of loop reaches the k-th entry: the greatest length
\* among the matching entries before it, or what the loop started with
LengthBefore(entries, matching, k, maxLength) ==
  Max({maxLength} \cup {Len(entries[j].word) : j \in {m \in matching : m < k}})

\* the entries at which the loop assigns longestMatch
Taken(entries, matching, maxLength) ==
  {k \in matching :
     Longer(Len(entries[k].word), LengthBefore(entries, matching, k, maxLength))}

\* longestMatch and maxLength after the assignment at an entry
TakeEntry(entry) ==
  [longestMatch |-> Some([braille |-> entry.braille, length |-> Len(entry.word),
                          word |-> entry.word]),
   maxLength |-> Len(entry.word)]

\* the last assignment of the loop stands
LastTaken(entries, taken, found) ==
  IF taken = {} THEN found ELSE TakeEntry(entries[Max(taken)])

\* one for-of loop of findLongestContraction over the entries of a table
TryEntries(entries, text, lowerText, found) ==
  LastTaken(entries, Taken(entries, Matching(entries, text, lowerText), found.maxLength),
            found)

\* None, or Some of the braille and the length of the longest contraction that
\* starts the text (with the table's word kept beside them)
findLongestContraction(text, custom) ==
  TryEntries(custom, text, ToLowerCase(text),
             TryEntries(programmingContractions, text, ToLowerCase(text),
                        NoMatch)).longestMatch

\* the multi-character operators, in the order of the tests
ProgrammingSymbols ==
  << [symbol |-> <<"=","=">>, braille |-> <<"46","13","46","13">>],
     [symbol |-> <<"!","=">>, braille |-> <<"34","46","13">>],
     [symbol |-> <<"<","=">>, braille |-> <<"4","126","46","13">>],
     [symbol |-> <<">","=">>, braille |-> <<"4","345","46","13">>],
     [symbol |-> <<"+","+">>, braille |-> <<"346","346">>],
     [symbol |-> <<"-","-">>, braille |-> <<"36","36">>],
     [symbol |-> <<"&","&">>, braille |-> <<"12346","12346">>],
     [symbol |-> <<"|","|">>, braille |-> <<"1256","1256">>],
     [symbol |-> <<":",":">>, braille |-> <<"25","25">>],
     [symbol |-> <<"-",">">>, braille |-> <<"36","4","345">>],
     [symbol |-> <<"=",">">>, braille |-> <<"46","13","4","345">>],
     [symbol |-> <<"/","/">>, braille |-> <<"34","34">>],
     [symbol |-> <<"/","*">>, braille |-> <<"34","35">>],
     [symbol |-> <<"*","/">>, braille |-> <<"35","34">>] >>

\* what handleProgrammingSymbol returns for the k-th operator
SymbolMatch(k) == [braille |-> ProgrammingSymbols[k].braille, length |-> 2]

handleProgrammingSymbol(text) ==
  IF \E k \in 1..Len(ProgrammingSymbols) : StartsWith(text, ProgrammingSymbols[k].symbol)
    THEN Some(SymbolMatch(Min({k \in 1..Len(ProgrammingSymbols) :
                                 StartsWith(text, ProgrammingSymbols[k].symbol)})))
    ELSE None

\* text.match(/^[\d.]+/): the run of digits and periods that starts the text
IsNumberChar(c) == IsDigit(c) \/ c = "."

NumberEnd(text) ==
  IF \E j \in 1..Len(text) : ~IsNumberChar(text[j])
    THEN Min({j \in 1..Len(text) : ~IsNumberChar(text[j])}) - 1
    ELSE Len(text)

extractNumberSequence(text) ==
  IF NumberEnd(text) > 0 THEN Some(SubSeq(text, 1, NumberEnd(text))) ELSE None

\* one character of convertNumbersToBraille
NumberCell(char) ==
  IF char = "." THEN <<DecimalPoint>>
  ELSE IF char \in MappedChars /\ brailleMappings[char] # <<>> THEN brailleMappings[char]
  ELSE <<ReplacementCell>>

RECURSIVE convertNumbersToBraille(_)
convertNumbersToBraille(numbers) ==
  IF numbers = <<>> THEN <<>>
  ELSE NumberCell(Head(numbers)) \o convertNumbersToBraille(Tail(numbers))

\* String.prototype.padStart(width, '0')
RECURSIVE PadStart(_, _)
PadStart(s, width) == IF Len(s) >= width THEN s ELSE PadStart(<<"0">> \o s, width)

\* the cells of one character that no earlier rule took
CharCells(char) ==
  IF ToLowerChar(char) \in MappedChars
    THEN (IF IsUpper(char) THEN <<CapitalIndicator>> ELSE <<>>)
         \o brailleMappings[ToLowerChar(char)]
    ELSE <<ReplacementCell>>

\* cell.repeat(n), for the indentation markers
RECURSIVE Repeat(_, _)
Repeat(cell, n) == IF n <= 0 THEN <<>> ELSE <<cell>> \o Repeat(cell, n - 1)

\* line.match(/^\s*/)[0].length
IndentLength(line) == SkipSpaces(line, 0)


(***************************************************************************)
(* The BrailleOutput component: convertToBraille, step by step             *)
(***************************************************************************)
\* useState: the settings the conversion reads
DefaultBrailleSettings ==
  [grade |-> "grade2", contractionsEnabled |-> TRUE, computerBraille |-> TRUE,
   autoRefresh |-> TRUE, preserveFormatting |-> TRUE, showLineNumbers |-> TRUE,
   compactMode |-> FALSE]

\* useState: conversionStats; accuracy in tenths, compressionRatio in hundredths
InitialStats ==
  [totalCharacters |-> 0, brailleCells |-> 0, contractions |-> 0, accuracy |-> 0,
   compressionRatio |-> 0]

\* the context object of one call
NewContext ==
  [line |-> 1, column |-> 1, indentLevel |-> 0, inString |-> FALSE, inComment |-> FALSE,
   inFunction |-> FALSE, inClass |-> FALSE, parenthesesLevel |-> 0, bracketsLevel |-> 0,
   bracesLevel |-> 0]

updateContext(context, char) ==
  IF char \in {"\"", "'"}
    THEN (IF ~context.inComment THEN [context EXCEPT !.inString = ~@] ELSE context)
  ELSE IF char = "/" THEN [context EXCEPT !.inComment = TRUE]
  ELSE IF char = "\n" THEN [context EXCEPT !.inComment = FALSE]
  ELSE IF char = "(" THEN [context EXCEPT !.parenthesesLevel = @ + 1]
  ELSE IF char = ")" THEN [context EXCEPT !.parenthesesLevel = @ - 1]
  ELSE IF char = "[" THEN [context EXCEPT !.bracketsLevel = @ + 1]
  ELSE IF char = "]" THEN [context EXCEPT !.bracketsLevel = @ - 1]
  ELSE IF char = "{" THEN [context EXCEPT !.bracesLevel = @ + 1]
  ELSE IF char = "}" THEN [context EXCEPT !.bracesLevel = @ - 1]
  ELSE context

\* no call of convertToBraille: phase is "effect" while the effect is due, "idle"
\* when nothing runs, "line" between two lines of a call, "scan" inside the while
\* loop and "returned" after the return.  rule names the branch the last iteration
\* took, and applied lists the contractions taken so far (line, position, word).
NoConversion ==
  [phase |-> "idle", caller |-> "none", text |-> <<>>, lines |-> <<>>, lineIndex |-> 0,
   i |-> 0, convertedLine |-> <<>>, convertedLines |-> <<>>, context |-> NewContext,
   rule |-> "none", applied |-> <<>>, result |-> None]

EffectDue == [NoConversion EXCEPT !.phase = "effect"]

\* the entry of convertToBraille: if (!text) return ''
EnterConversion(text, caller) ==
  IF text = <<>>
    THEN [NoConversion EXCEPT !.phase = "returned", !.caller = caller, !.result = Some(<<>>)]
    ELSE [NoConversion EXCEPT !.phase = "line", !.caller = caller, !.text = text,
                              !.lines = Split(text, "\n")]

\* the line number and the indentation markers that open a converted line
LineNumberCells(lineIndex, s) ==
  IF s.showLineNumbers /\ ~s.compactMode
    THEN convertNumbersToBraille(PadStart(NatToString(lineIndex + 1), 3)) \o LineNumberMark
    ELSE <<>>

IndentCells(indentLevel, s) ==
  IF indentLevel > 0 /\ s.preserveFormatting THEN Repeat(IndentMarker, indentLevel) ELSE <<>>

\* the forEach callback up to the while loop
EnterLine(c, indentLevel, s) ==
  [c EXCEPT !.phase = "scan", !.i = 0,
            !.context = [@ EXCEPT !.line = c.lineIndex + 1, !.column = 1,
                                  !.indentLevel = indentLevel],
            !.convertedLine = LineNumberCells(c.lineIndex, s) \o IndentCells(indentLevel, s)]

\* convertedLine += cells; i += length, after updateContext(context, char)
Advance(c, char, cells, length, rule, word) ==
  [c EXCEPT !.context = updateContext(@, char),
            !.convertedLine = @ \o cells,
            !.i = @ + length,
            !.rule = rule,
            !.applied = @ \o word]

\* the regular character: its cells, i++ and context.column++
CharIteration(c, char) ==
  [Advance(c, char, CharCells(char), 1, "char", <<>>) EXCEPT !.context.column = @ + 1]

NumberFound(c, remaining, numberSequence) ==
  IF numberSequence # None
    THEN Advance(c, remaining[1],
                 <<NumberPrefix>> \o convertNumbersToBraille(numberSequence[1]),
                 Len(numberSequence[1]), "number", <<>>)
    ELSE CharIteration(c, remaining[1])

NumberIteration(c, remaining) ==
  IF IsDigit(remaining[1])
    THEN NumberFound(c, remaining, extractNumberSequence(remaining))
    ELSE CharIteration(c, remaining[1])

SymbolFound(c, remaining, programmingSymbol) ==
  IF programmingSymbol # None
    THEN Advance(c, remaining[1], programmingSymbol[1].braille,
                 programmingSymbol[1].length, "symbol", <<>>)
    ELSE NumberIteration(c, remaining)

SymbolIteration(c, remaining, s) ==
  IF s.computerBraille
    THEN SymbolFound(c, remaining, handleProgrammingSymbol(remaining))
    ELSE NumberIteration(c, remaining)

ContractionFound(c, remaining, s, contraction) ==
  IF contraction # None
    THEN Advance(c, remaining[1], contraction[1].braille, contraction[1].length,
                 "contraction",
                 <<[line |-> c.lineIndex, at |-> c.i, word |-> contraction[1].word]>>)
    ELSE SymbolIteration(c, remaining, s)

\* one iteration of the while loop over the rest of the line
Iteration(c, remaining, s, custom) ==
  IF s.contractionsEnabled /\ s.grade = "grade2"
    THEN ContractionFound(c, remaining, s, findLongestContraction(remaining, custom))
    ELSE SymbolIteration(c, remaining, s)

\* convertedLines.push(convertedLine), and on to the next line
LeaveLine(c) ==
  [c EXCEPT !.phase = "line", !.lineIndex = @ + 1,
            !.convertedLines = Append(@, c.convertedLine)]

\* return convertedLines.join('\n')
LeaveConversion(c) ==
  [c EXCEPT !.phase = "returned", !.result = Some(JoinLines(c.convertedLines))]


(***************************************************************************)
(* The BrailleOutput component: calculateStats, the effect and the actions *)
(***************************************************************************)
StrReturn == <<"r","e","t","u","r","n">>

\* the alternatives of /\b(function|return|class|const|let|var)\b/g
StatsKeywords == <<StrFunction, StrReturn, StrClass, StrConst, StrLet, StrVar>>

\* one of the alternatives is a whole word at the 0-based position pos
StatsKeywordAt(s, pos) ==
  \E k \in 1..Len(StatsKeywords) :
    /\ StartsWithAt(s, StatsKeywords[k], pos)
    /\ WordBoundaryAt(s, pos)
    /\ WordBoundaryAt(s, pos + Len(StatsKeywords[k]))

\* brailleText.replace(/\s/g, '').length
CellCount(braille) == Cardinality({k \in 1..Len(braille) : ~IsSpace(braille[k])})

\* Math.abs(a - b)
Abs(a, b) == IF a >= b THEN a - b ELSE b - a

\* Math.round of the fraction num / den, for num >= 0 and den > 0
RoundDiv(num, den) == (2 * num + den) \div (2 * den)

\* Math.round(Math.min(100, Math.max(0, 100 - (diff / total) * 100)) * 10), in tenths
AccuracyTenths(total, diff) ==
  IF diff >= total THEN 0 ELSE RoundDiv(1000 * (total - diff), total)

\* the record handed to setConversionStats, for originalText.length > 0
calculateStats(originalText, braille) ==
  [totalCharacters |-> Len(originalText),
   brailleCells |-> CellCount(braille),
   contractions |-> Cardinality({pos \in 0..Len(originalText) :
                                   StatsKeywordAt(originalText, pos)}),
   accuracy |-> AccuracyTenths(Len(originalText),
                               Abs(Len(originalText), CellCount(braille))),
   compressionRatio |-> RoundDiv(10000 * CellCount(braille), Len(originalText))]

\* the conversion never touches the other components
BesideBraille == <<navVars, audioVars, outsideVars>>

\* the effect on [code, settings, refreshKey]
BrailleEffect ==
  /\ conversion.phase = "effect"
  /\ conversion' = IF brailleCode # <<>> /\ brailleSettings.autoRefresh
                     THEN EnterConversion(brailleCode, "effect")
                     ELSE NoConversion
  /\ UNCHANGED <<brailleCode, brailleSettings, customContractions, brailleText, stats>>
  /\ UNCHANGED BesideBraille

\* convertToBraille applied to a text by itself, outside the effect
CallConvertToBraille(text) ==
  /\ conversion.phase \in {"idle", "returned"}
  /\ conversion' = EnterConversion(text, "call")
  /\ UNCHANGED <<brailleCode, brailleSettings, customContractions, brailleText, stats>>
  /\ UNCHANGED BesideBraille

\* lines.forEach reaches the next line
LineStart ==
  /\ conversion.phase = "line"
  /\ conversion.lineIndex < Len(conversion.lines)
  /\ conversion' = EnterLine(conversion,
                             IndentLength(conversion.lines[conversion.lineIndex + 1]) \div 2,
                             brailleSettings)
  /\ UNCHANGED <<brailleCode, brailleSettings, customContractions, brailleText, stats>>
  /\ UNCHANGED BesideBraille

\* while (i < line.length): one iteration
ScanStep ==
  /\ conversion.phase = "scan"
  /\ conversion.i < Len(conversion.lines[conversion.lineIndex + 1])
  /\ conversion' = Iteration(conversion,
                             SliceFrom(conversion.lines[conversion.lineIndex + 1],
                                       conversion.i),
                             brailleSettings, customContractions)
  /\ UNCHANGED <<brailleCode, brailleSettings, customContractions, brailleText, stats>>
  /\ UNCHANGED BesideBraille

\* the while loop ends
LineEnd ==
  /\ conversion.phase = "scan"
  /\ conversion.i >= Len(conversion.lines[conversion.lineIndex + 1])
  /\ conversion' = LeaveLine(conversion)
  /\ UNCHANGED <<brailleCode, brailleSettings, customContractions, brailleText, stats>>
  /\ UNCHANGED BesideBraille

\* what the effect does with the converted text
CommitConversion(caller, converted) ==
  IF caller = "effect"
    THEN /\ brailleText' = converted
         /\ stats' = calculateStats(brailleCode, converted)
    ELSE UNCHANGED <<brailleText, stats>>

\* the return of convertToBraille, and the rest of the effect when it made the call
ConvertReturn ==
  /\ conversion.phase = "line"
  /\ conversion.lineIndex >= Len(conversion.lines)
  /\ conversion' = LeaveConversion(conversion)
  /\ CommitConversion(conversion.caller, JoinLines(conversion.convertedLines))
  /\ UNCHANGED <<brailleCode, brailleSettings, customContractions>>
  /\ UNCHANGED BesideBraille

\* manualRefresh: refreshKey changes and the effect is due again
manualRefresh ==
  /\ conversion.phase \in {"idle", "returned"}
  /\ conversion' = EffectDue
  /\ UNCHANGED <<brailleCode, brailleSettings, customContractions, brailleText, stats>>
  /\ UNCHANGED BesideBraille


(***************************************************************************)
(* The CodeEditor component: the audio cues                                *)
(*                                                                         *)
(* Frequencies are in Hz, durations in milliseconds, envelope values in    *)
(* thousandths, the volume and the playback speed in tenths.               *)
(***************************************************************************)
audioMappings ==
  [function |-> [frequency |-> 440, duration |-> 500, waveform |-> "sine",
                 envelope |-> [attack |-> 100, decay |-> 200, sustain |-> 700, release |-> 300]],
   variable |-> [frequency |-> 330, duration |-> 300, waveform |-> "triangle",
                 envelope |-> [attack |-> 50, decay |-> 100, sustain |-> 800, release |-> 200]],
   class |-> [frequency |-> 550, duration |-> 600, waveform |-> "square",
              envelope |-> [attack |-> 150, decay |-> 250, sustain |-> 600, release |-> 400]],
   loop |-> [frequency |-> 220, duration |-> 400, waveform |-> "sawtooth",
             envelope |-> [attack |-> 80, decay |-> 150, sustain |-> 750, release |-> 250]],
   conditional |-> [frequency |-> 660, duration |-> 350, waveform |-> "sine",
                    envelope |-> [attack |-> 60, decay |-> 120, sustain |-> 820, release |-> 180]],
   comment |-> [frequency |-> 110, duration |-> 200, waveform |-> "triangle",
                envelope |-> [attack |-> 30, decay |-> 80, sustain |-> 900, release |-> 150]],
   string |-> [frequency |-> 880, duration |-> 250, waveform |-> "sine",
               envelope |-> [attack |-> 40, decay |-> 90, sustain |-> 850, release |-> 120]],
   number |-> [frequency |-> 440, duration |-> 150, waveform |-> "square",
               envelope |-> [attack |-> 20, decay |-> 50, sustain |-> 950, release |-> 80]],
   operator |-> [frequency |-> 1100, duration |-> 100, waveform |-> "triangle",
                 envelope |-> [attack |-> 10, decay |-> 30, sustain |-> 980, release |-> 50]],
   keyword |-> [frequency |-> 770, duration |-> 300, waveform |-> "sawtooth",
                envelope |-> [attack |-> 70, decay |-> 130, sustain |-> 780, release |-> 220]]]

\* a lookup that falls back on the first entry of the table
cueForFirstEntry(elementType) ==
  IF elementType \in DOMAIN audioMappings THEN audioMappings[elementType]
  ELSE audioMappings.function

\* audioMappings[elementType] || audioMappings.keyword
cueFor(elementType) ==
  IF elementType \in DOMAIN audioMappings THEN audioMappings[elementType]
  ELSE audioMappings.keyword

\* new Tone.Synth({...}).toDestination(), with its volume set
NewSynth(volume) ==
  [waveform |-> "sine",
   envelope |-> [attack |-> 100, decay |-> 200, sustain |-> 700, release |-> 300],
   volume |-> volume, panners |-> 0]

\* the audio never touches the other components
BesideAudio == <<navVars, brailleVars, outsideVars>>

\* a step that is neither a call of playAudioForElement nor its resumption
OtherAudio == [op |-> "other"]

\* the waiting calls after the cleanup has run: those that were made while
\* the synth it disposes of was in place are marked
AfterDispose(calls) ==
  [k \in 1..Len(calls) |-> [calls[k] EXCEPT !.disposed = @ \/ synth # None]]

\* an effect whose cleanup is missing: the synth in place is kept
AudioEffectKeepingSynth(enabled, volume) ==
  /\ synth' = IF ~enabled \/ synth = None
                THEN (IF enabled THEN Some(NewSynth(volume)) ELSE synth)
                ELSE Some([synth[1] EXCEPT !.volume = volume])
  /\ suspended' = suspended

\* the effect on [audioEnabled, audioVolume]: the cleanup disposes of the synth,
\* then initAudio makes a new one when the audio is enabled
AudioEffect(enabled, volume) ==
  /\ synth' = IF enabled THEN Some(NewSynth(volume)) ELSE None
  /\ suspended' = AfterDispose(suspended)

\* the audioEnabled prop changes
SetAudioEnabled(enabled) ==
  /\ enabled # audioEnabled
  /\ audioEnabled' = enabled
  /\ AudioEffect(enabled, audioVolume)
  /\ lastAudio' = OtherAudio
  /\ UNCHANGED <<audioVolume, playbackSpeed, spatialAudio, triggered>>
  /\ UNCHANGED BesideAudio

SetAudioVolume(volume) ==
  /\ volume # audioVolume
  /\ audioVolume' = volume
  /\ AudioEffect(audioEnabled, volume)
  /\ lastAudio' = OtherAudio
  /\ UNCHANGED <<audioEnabled, playbackSpeed, spatialAudio, triggered>>
  /\ UNCHANGED BesideAudio

SetPlaybackSpeed(speed) ==
  /\ speed # playbackSpeed
  /\ playbackSpeed' = speed
  /\ lastAudio' = OtherAudio
  /\ UNCHANGED <<audioEnabled, audioVolume, spatialAudio, synth, suspended, triggered>>
  /\ UNCHANGED BesideAudio

SetSpatialAudio(spatial) ==
  /\ spatial # spatialAudio
  /\ spatialAudio' = spatial
  /\ lastAudio' = OtherAudio
  /\ UNCHANGED <<audioEnabled, audioVolume, playbackSpeed, synth, suspended, triggered>>
  /\ UNCHANGED BesideAudio

\* the call up to await Tone.start(): it returns at once without the audio or
\* the synth, and else waits with what its closure captured
playAudioForElement(elementType, duration) ==
  /\ Len(suspended) < MaxSuspended
  /\ suspended' = IF ~audioEnabled \/ synth = None THEN suspended
                  ELSE Append(suspended, [elementType |-> elementType,
                                          duration |-> duration,
                                          playbackSpeed |-> playbackSpeed,
                                          spatialAudio |-> spatialAudio,
                                          disposed |-> FALSE])
  /\ lastAudio' = [op |-> "call", elementType |-> elementType,
                   outcome |-> IF ~audioEnabled \/ synth = None THEN "returned"
                               ELSE "suspended"]
  /\ UNCHANGED <<audioEnabled, audioVolume, playbackSpeed, spatialAudio, synth, triggered>>
  /\ UNCHANGED BesideAudio

\* the synth after the call has configured it and connected its panner
Configured(s, mapping, spatial) ==
  [s EXCEPT !.waveform = mapping.waveform,
            !.envelope = mapping.envelope,
            !.panners = IF spatial THEN @ + 1 ELSE @]

\* triggerAttackRelease(mapping.frequency, actualDuration), with the lookup that
\* led to it; the duration is in milliseconds times tenths
Tone(call, mapping) ==
  [elementType |-> call.elementType, mapping |-> mapping,
   frequency |-> mapping.frequency,
   duration |-> OrElse(call.duration, <<mapping.duration>>)[1] * call.playbackSpeed]

\* the call after await Tone.start(): without a synth the TypeError is caught
Resume(call, mapping) ==
  /\ lastAudio' = [op |-> "resume", elementType |-> call.elementType,
                   disposed |-> call.disposed,
                   outcome |-> IF synth = None THEN "caught" ELSE "tone"]
  /\ IF synth = None
       THEN UNCHANGED <<synth, triggered>>
       ELSE /\ synth' = Some(Configured(synth[1], mapping, call.spatialAudio))
            /\ triggered' = Some(Tone(call, mapping))

ToneStarted ==
  /\ suspended # <<>>
  /\ synth # None /\ Head(suspended).spatialAudio => synth[1].panners < MaxPanners
  /\ suspended' = Tail(suspended)
  /\ Resume(Head(suspended), cueFor(Head(suspended).elementType))
  /\ UNCHANGED <<audioEnabled, audioVolume, playbackSpeed, spatialAudio>>
  /\ UNCHANGED BesideAudio


(***************************************************************************)
(* The NavigationHelper component: specification                           *)
(***************************************************************************)
\* the BrailleOutput component with no code to convert
\* the server has no session
ServerIdle ==
  /\ codeAnalytics = [id \in SessionIds |-> None]
  /\ arrivals = [id \in SessionIds |-> 0]
  /\ lastRequest = NoRequest

\* the stream client as constructed: no socket, no attempt
StreamIdle ==
  /\ sockets = <<>>
  /\ ws = None
  /\ reconnectAttempts = 0
  /\ reconnectTimers = 0
  /\ stopped = FALSE
  /\ lastStream = NoStreamOp

OutsideIdle == ServerIdle /\ StreamIdle

BrailleIdle ==
  /\ brailleCode = <<>>
  /\ brailleSettings = DefaultBrailleSettings
  /\ customContractions = <<>>
  /\ brailleText = <<>>
  /\ stats = InitialStats
  /\ conversion = NoConversion

\* the CodeEditor component with the audio off
AudioIdle ==
  /\ audioEnabled = FALSE
  /\ audioVolume = 5
  /\ playbackSpeed = 10
  /\ spatialAudio = FALSE
  /\ synth = None
  /\ suspended = <<>>
  /\ triggered = None
  /\ lastAudio = OtherAudio

\* the other components, at rest
BesideNavIdle == BrailleIdle /\ AudioIdle /\ OutsideIdle

\* the state after the mount with the text t: the effects of the first
\* render have run
Mounted(t) ==
  /\ code = t
  /\ parseTimers = IF code # <<>> THEN <<code>> ELSE <<>>
  /\ scanCount = 0
  /\ scanLog = <<>>
  /\ codeElements = <<>>
  /\ filteredElements = <<>>
  /\ filteredSame = TRUE
  /\ selectedElement = None
  /\ searchQuery = <<>>
  /\ searchResults = <<>>
  /\ navigationHistory = <<>>
  /\ currentHistoryIndex = 0 - 1
  /\ breadcrumbs = <<>>
  /\ settings = DefaultSettings
  /\ navigationMode \in NavigationModes
  /\ keyClosure = [currentHistoryIndex |-> 0 - 1]
  /\ lastOp = OtherOp
  /\ BesideNavIdle

InitNav == \E t \in Texts : Mounted(t)

vars == <<navVars, brailleVars, audioVars, serverVars, streamVars>>

\* the user moves among the elements of the text
Init == InitNav

Next ==
  \/ ParseTimeout
  \/ ClickElement
  \/ ClickSearchResult
  \/ ClickBreadcrumb
  \/ ClickBack
  \/ ClickForward
  \/ KeyArrowDown
  \/ KeyArrowUp
  \/ KeyEnter
  \/ KeyHome
  \/ KeyEnd
  \/ KeyEscape
  \/ \E q \in NavQueries : SetSearchQuery(q)
  \/ \E mode \in NavigationModes : SetNavigationMode(mode)

Spec == Init /\ [][Next]_vars

\* the editor changes the text while the user works with the list
InitScan == InitNav /\ navigationMode = "keyboard"

NextScan ==
  \/ \E t \in Texts : SetCode(t)
  \/ ParseTimeout
  \/ \E q \in NavQueries : SetSearchQuery(q)
  \/ \E order \in SortOrders : SetSortOrder(order)
  \/ ClickElement

SpecScan == InitScan /\ [][NextScan]_vars


\* the mounted component in the given mode after the scan of the text t was
\* installed
ScannedIn(t, mode) ==
  /\ code = t
  /\ parseTimers = <<>>
  /\ scanCount = 1
  /\ scanLog = <<[text |-> t, result |-> parseCode(t)]>>
  /\ codeElements = WithRef(parseCode(t).elements, 1)
  /\ filteredElements = WithRef(parseCode(t).elements, 1)
  /\ filteredSame = TRUE
  /\ selectedElement = None
  /\ searchQuery = <<>>
  /\ searchResults = <<>>
  /\ navigationHistory = <<>>
  /\ currentHistoryIndex = 0 - 1
  /\ breadcrumbs = <<>>
  /\ settings = DefaultSettings
  /\ navigationMode = mode
  /\ keyClosure = [currentHistoryIndex |-> 0 - 1]
  /\ lastOp = OtherOp
  /\ BesideNavIdle

Scanned(t) == ScannedIn(t, "keyboard")

\* the user filters, sorts and groups the list of a scanned text
InitIndex == \E t \in IndexTexts : Scanned(t)

NextIndex ==
  \/ \E q \in Queries : SetSearchQuery(q)
  \/ \E type \in ElementTypes : ToggleFilterType(type)
  \/ ClearFilters
  \/ \E key \in SortKeys : SetSortBy(key)
  \/ \E order \in SortOrders : SetSortOrder(order)
  \/ ToggleGroupByType

SpecIndex == InitIndex /\ [][NextIndex]_vars


\* the user searches the elements of a scanned text
InitSearch == \E t \in SearchTexts : Scanned(t)

NextSearch ==
  \/ \E q \in SearchQueries : SetSearchQuery(q)
  \/ KeyEscape
  \/ \E key \in SortKeys : SetSortBy(key)
  \/ \E order \in SortOrders : SetSortOrder(order)

SpecSearch == InitSearch /\ [][NextSearch]_vars


(***************************************************************************)
(* Navigation history                                                      *)
(***************************************************************************)
\* the entry navigateTo(element, action) appends
NewEntry == [element |-> lastOp'.element, action |-> lastOp'.action]

\* C1: navigateTo(element, action) on a history with the cursor at c keeps the
\* first c + 1 entries, puts the new entry at index c + 1, leaves a history of
\* length c + 2 and moves the cursor to c + 1.
C1_NavigateToTruncates ==
  [][lastOp'.op = "navigateTo" =>
       /\ Len(navigationHistory') = currentHistoryIndex + 2
       /\ SubSeq(navigationHistory', 1, currentHistoryIndex + 1)
            = SubSeq(navigationHistory, 1, currentHistoryIndex + 1)
       /\ navigationHistory'[currentHistoryIndex + 2] = NewEntry
       /\ currentHistoryIndex' = currentHistoryIndex + 1]_vars

\* the entry historyMove lands on
MovedTo(newIndex) ==
  /\ currentHistoryIndex' = newIndex
  /\ selectedElement' = Some(navigationHistory[newIndex + 1].element)
  /\ navigationHistory' = navigationHistory

\* C2: historyMove('back') with the cursor above 0 moves it down by one and
\* historyMove('forward') with the cursor below length - 1 moves it up by
\* one, selecting the element of the entry there; at the ends and on an
\* empty history the cursor, the history and the selection stay as they are.
C2_HistoryMoveByOne ==
  [][lastOp'.op = "historyMove" =>
       IF lastOp'.direction = "back" /\ currentHistoryIndex > 0
         THEN MovedTo(currentHistoryIndex - 1)
       ELSE IF lastOp'.direction = "forward"
                 /\ currentHistoryIndex < Len(navigationHistory) - 1
         THEN MovedTo(currentHistoryIndex + 1)
       ELSE UNCHANGED <<currentHistoryIndex, navigationHistory, selectedElement>>]_vars


(***************************************************************************)
(* The structural scanner                                                  *)
(***************************************************************************)
\* C5: scanning the single line "function add(a, b) {" emits exactly one
\* element: a function named add with the parameters a and b and complexity 1.
C5_FunctionAddScanned ==
  \A i \in 1..Len(scanLog) :
    scanLog[i].text = LineFunctionAdd =>
      /\ ~scanLog[i].result.raised
      /\ Len(scanLog[i].result.elements) = 1
      /\ scanLog[i].result.elements[1].type = "function"
      /\ scanLog[i].result.elements[1].name = <<"a","d","d">>
      /\ scanLog[i].result.elements[1].params = Some(<< <<"a">>, <<"b">> >>)
      /\ scanLog[i].result.elements[1].complexity = Some(1)

\* C6: no scan raises, whatever the text: every call of the scanner returns
\* an element sequence.
C6_ScanNeverRaises ==
  \A i \in 1..Len(scanLog) : ~scanLog[i].result.raised

\* what two scans are compared in: id, kind, name, span and scope
Observed(e) ==
  [id |-> e.id, type |-> e.type, name |-> e.name, line |-> e.line,
   column |-> e.column, endLine |-> e.endLine, endColumn |-> e.endColumn,
   scope |-> e.scope]

SameScan(r1, r2) ==
  /\ r1.raised = r2.raised
  /\ Len(r1.elements) = Len(r2.elements)
  /\ \A k \in 1..Len(r1.elements) : Observed(r1.elements[k]) = Observed(r2.elements[k])

Passes(e, s, q) ==
  /\ s.filterTypes = {} \/ e.type \in s.filterTypes
  /\ q = <<>> \/ MatchesQuery(e, q)

\* the sort key of an element
KeyOf(e, key) ==
  CASE key = "name" -> e.name
    [] key = "line" -> e.line
    [] key = "complexity" -> ComplexityOrZero(e)
    [] key = "type" -> TypeChars[e.type]

\* the order of the keys: numbers by value, texts as localeCompare ranks them
KeyLeq(x, y, key) ==
  IF key \in {"line", "complexity"} THEN x <= y ELSE LocaleCompare(x, y) <= 0

PositionIn(input, e) == CHOOSE i \in 1..Len(input) : input[i] = e

IndexedWell(input, s, q, out) ==
  \* exactly the input elements that pass the filters
  /\ Len(out) = Cardinality({i \in 1..Len(input) : Passes(input[i], s, q)})
  /\ \A i \in 1..Len(input) :
       Passes(input[i], s, q) => \E k \in 1..Len(out) : out[k] = input[i]
  /\ \A k \in 1..Len(out) :
       \E i \in 1..Len(input) : out[k] = input[i] /\ Passes(input[i], s, q)
  \* in the order asked for
  /\ \A k, l \in 1..Len(out) :
       k < l => IF s.sortOrder = "desc"
                  THEN KeyLeq(KeyOf(out[l], s.sortBy), KeyOf(out[k], s.sortBy), s.sortBy)
                  ELSE KeyLeq(KeyOf(out[k], s.sortBy), KeyOf(out[l], s.sortBy), s.sortBy)
  \* equal keys in the order of the input
  /\ \A k, l \in 1..Len(out) :
       k < l /\ KeyOf(out[k], s.sortBy) = KeyOf(out[l], s.sortBy)
         => PositionIn(input, out[k]) < PositionIn(input, out[l])

\* C4: with grouping disabled, the visible sequence of the index holds
\* exactly the input elements that pass the kind filter and the free-text
\* filter, non-decreasing in the sort key for asc and non-increasing for
\* desc, elements of equal key in the order they had in the input.
C4_IndexFiltersAndSorts ==
  [][lastOp'.op = "index" /\ ~settings'.groupByType =>
       IndexedWell(codeElements, settings', searchQuery', filteredElements')]_vars

\* a descending list by name with a filter in force, two elements of one
\* name in it, made from an array that an earlier sort had put out of line order
C4_Witness ==
  /\ lastOp.op = "index"
  /\ ~settings.groupByType
  /\ settings.sortOrder = "desc"
  /\ settings.sortBy = "name"
  /\ settings.filterTypes # {}
  /\ Len(filteredElements) < Len(codeElements)
  /\ \E k, l \in 1..Len(filteredElements) :
       k < l /\ filteredElements[k].name = filteredElements[l].name
  /\ \E i, j \in 1..Len(codeElements) :
       i < j /\ codeElements[i].line > codeElements[j].line


(***************************************************************************)
(* The index: search                                                       *)
(***************************************************************************)
\* the boost of a kind
KindBoost(type) ==
  CASE type = "function" -> 20
    [] type = "class" -> 15
    [] type = "variable" -> 10
    [] type \in {"import", "export"} -> 5
    [] OTHER -> 0

Contains(text, q) == Includes(ToLowerCase(text), ToLowerCase(q))

\* the score of an element for a query, term by term
ScoreOf(e, q) ==
  (IF ToLowerCase(e.name) = ToLowerCase(q) THEN 100
   ELSE IF Contains(e.name, q) THEN 50 ELSE 0)
  + (IF e.description # None /\ Contains(e.description[1], q) THEN 25 ELSE 0)
  + (IF Contains(e.scope, q) THEN 15 ELSE 0)
  + (IF e.params = None THEN 0
     ELSE 10 * Cardinality({k \in 1..Len(e.params[1]) : Contains(e.params[1][k], q)}))
  + KindBoost(e.type)

\* C3: for a query that is not blank the search returns at most 20 results,
\* each with a score above 0 that is the sum of its name, description, scope
\* and parameter terms and the boost of its kind.
C3_SearchScores ==
  Trim(searchQuery) # <<>> =>
    /\ Len(searchResults) <= 20
    /\ \A k \in 1..Len(searchResults) :
         /\ searchResults[k].score > 0
         /\ searchResults[k].score = ScoreOf(searchResults[k].element, searchQuery)

\* twenty results out of twenty-two elements that score, one of them on its
\* name, its description and its scope at once
C3_Witness ==
  /\ Trim(searchQuery) # <<>>
  /\ Len(codeElements) > 20
  /\ Len(searchResults) = 20
  /\ \E k \in 1..Len(searchResults) : searchResults[k].score = 100 + 25 + 15 + 10


(***************************************************************************)
(* The BrailleOutput component: specification                              *)
(***************************************************************************)
\* the NavigationHelper component with no code to show
NavIdle ==
  /\ code = <<>>
  /\ parseTimers = <<>>
  /\ scanCount = 0
  /\ scanLog = <<>>
  /\ codeElements = <<>>
  /\ filteredElements = <<>>
  /\ filteredSame = TRUE
  /\ selectedElement = None
  /\ searchQuery = <<>>
  /\ searchResults = <<>>
  /\ navigationHistory = <<>>
  /\ currentHistoryIndex = 0 - 1
  /\ breadcrumbs = <<>>
  /\ settings = DefaultSettings
  /\ navigationMode = "keyboard"
  /\ keyClosure = [currentHistoryIndex |-> 0 - 1]
  /\ lastOp = OtherOp

StrForm == <<"f","o","r","m">>

StrForSpace == <<"f","o","r"," ">>

\* the texts to convert: a keyword inside a word and as a word, a keyword before
\* a parenthesis, an operator and a number, a capital and a decimal number, an
\* indented line with an unmapped character, a blank, two lines, a declaration
BrailleTexts ==
  { TextEmpty, StrForm, StrForSpace,
    <<"i","f","(","x",")">>, <<"x","=","=","1">>, <<"F","1",".","5">>,
    <<" "," ","a","_">>, <<" ">>, <<"l","e","t","\n","f","o","r">>, LineFunctionAdd }

BrailleSettingsSet ==
  [grade : {"grade1", "grade2"}, contractionsEnabled : BOOLEAN, computerBraille : BOOLEAN,
   autoRefresh : BOOLEAN, preserveFormatting : BOOLEAN, showLineNumbers : BOOLEAN,
   compactMode : BOOLEAN]

\* the user's tables: none, one with the empty string as a key, one that rivals
\* the keyword table
EmptyKeyTable == << [word |-> <<>>, braille |-> <<"1">>] >>

CustomTables ==
  { <<>>, EmptyKeyTable,
    << [word |-> StrFor, braille |-> <<"2">>], [word |-> <<"f","o">>, braille |-> <<"3">>] >> }

\* the component is mounted with a text, settings and a table; its effect is due
InitBraille ==
  /\ brailleCode \in BrailleTexts
  /\ brailleSettings \in BrailleSettingsSet
  /\ customContractions \in CustomTables
  /\ brailleText = <<>>
  /\ stats = InitialStats
  /\ conversion = EffectDue
  /\ NavIdle
  /\ OutsideIdle
  /\ AudioIdle

NextBraille ==
  \/ BrailleEffect
  \/ CallConvertToBraille(brailleCode)
  \/ LineStart
  \/ ScanStep
  \/ LineEnd
  \/ ConvertReturn
  \/ manualRefresh

SpecBraille == InitBraille /\ [][NextBraille]_vars


(***************************************************************************)
(* The Braille conversion: termination                                     *)
(***************************************************************************)
\* a call of convertToBraille is under way
Running(c) == c.phase \in {"line", "scan"}

\* an iteration of the while loop goes on by one character or more
StepAdvances ==
  conversion.phase = "scan" /\ conversion'.phase = "scan" /\ conversion' # conversion
    => conversion'.i >= conversion.i + 1

\* how far a call has come within its line: 0 before the while loop
PlaceInLine(c) == IF c.phase = "scan" THEN c.i + 1 ELSE 0

ComesLater(c, d) ==
  \/ d.lineIndex > c.lineIndex
  \/ d.lineIndex = c.lineIndex /\ PlaceInLine(d) > PlaceInLine(c)

\* every step of a call returns or comes later in the same text
CallGoesOn ==
  Running(conversion) /\ conversion' # conversion =>
    \/ conversion'.phase = "returned"
    \/ /\ Running(conversion')
       /\ conversion'.lines = conversion.lines
       /\ ComesLater(conversion, conversion')

\* a call stays within its text, where its next step is defined
WithinText ==
  Running(conversion) =>
    /\ conversion.lineIndex <= Len(conversion.lines)
    /\ conversion.phase = "scan" =>
         /\ conversion.lineIndex < Len(conversion.lines)
         /\ conversion.i <= Len(conversion.lines[conversion.lineIndex + 1])

\* what a call has returned: a text, the empty one for the empty text
ReturnsText ==
  conversion.phase = "returned" =>
    /\ conversion.result # None
    /\ conversion.text = <<>> => conversion.result[1] = <<>>

\* what the effect has stored after its call for a text that is not empty
StoresStats ==
  conversion.phase = "returned" /\ conversion.caller = "effect" =>
    /\ brailleCode # <<>>
    /\ brailleText = conversion.result[1]
    /\ stats.totalCharacters > 0

\* C8: the conversion ends for every text, settings and user table, the table
\* with an empty-string key included: each iteration over a line goes on by at
\* least one character, every step of a call comes later in a text it never
\* leaves or returns, the call returns a text, the empty one for the empty
\* text, and the statistics of a text that is not empty count more than 0
\* characters.
C8_ConversionTerminates ==
  /\ [][StepAdvances /\ CallGoesOn]_vars
  /\ [](WithinText /\ ReturnsText /\ StoresStats)

\* the effect has converted a text with the table of the empty-string key, and
\* has taken a keyword's contraction, an operator and a single character on the way
C8_Witness ==
  /\ conversion.phase = "returned"
  /\ conversion.caller = "effect"
  /\ customContractions = EmptyKeyTable
  /\ conversion.text = LineFunctionAdd
  /\ conversion.applied # <<>>
  /\ stats.totalCharacters = Len(LineFunctionAdd)
  /\ brailleText # <<>>


(***************************************************************************)
(* The Braille conversion: whole words                                     *)
(***************************************************************************)
ForCells == <<"124", "1235">>

\* the character after the word of a contraction taken at a position of a line
FollowedBy(line, at, word) ==
  IF at + Len(word) + 1 <= Len(line) THEN line[at + Len(word) + 1] ELSE "end"

NotOfAWord(c) ==
  c = "end" \/ c \notin (Range(LowerLetters) \cup Range(UpperLetters) \cup Range(Digits) \cup {"_"})

\* C9: a contraction is taken only where the character after the matched word
\* is absent or is no letter, digit or underscore; the conversion of "form"
\* takes no contraction of "for" and writes none of its cells, while with
\* grade 2 and the contractions enabled the conversion of "for " takes it.
C9_ContractionAtWordEnd ==
  /\ \A k \in 1..Len(conversion.applied) :
       NotOfAWord(FollowedBy(conversion.lines[conversion.applied[k].line + 1],
                             conversion.applied[k].at, conversion.applied[k].word))
  /\ conversion.phase = "returned" /\ conversion.text = StrForm =>
       /\ \A k \in 1..Len(conversion.applied) : conversion.applied[k].word # StrFor
       /\ ~Includes(conversion.result[1], ForCells)
  /\ /\ conversion.phase = "returned" /\ conversion.text = StrForSpace
     /\ brailleSettings.grade = "grade2" /\ brailleSettings.contractionsEnabled
     => /\ conversion.applied =
             <<[line |-> 0, at |-> 0, word |-> StrFor]>>
        /\ Includes(conversion.result[1], ForCells \o <<" ">>)

\* "for " has been converted with the contraction of "for" taken at its start
C9_Witness ==
  /\ conversion.phase = "returned"
  /\ conversion.text = StrForSpace
  /\ Len(conversion.applied) = 1
  /\ conversion.applied[1].word = StrFor
  /\ Includes(conversion.result[1], ForCells)


(***************************************************************************)
(* The audio cues: specification                                           *)
(***************************************************************************)
\* the kinds of the scanner, the keys of the table and a kind of neither
AudioKinds == ElementTypes \cup DOMAIN audioMappings \cup {"unknown"}

\* the duration argument of a call: left out, or 0.1 s
CallDurations == {None, Some(100)}

\* the editor is mounted and the effect on the audioEnabled prop has run
InitAudio ==
  /\ audioEnabled \in BOOLEAN
  /\ audioVolume = 5
  /\ playbackSpeed = 10
  /\ spatialAudio = FALSE
  /\ synth = IF audioEnabled THEN Some(NewSynth(audioVolume)) ELSE None
  /\ suspended = <<>>
  /\ triggered = None
  /\ lastAudio = OtherAudio
  /\ NavIdle
  /\ OutsideIdle
  /\ BrailleIdle

NextAudio ==
  \/ \E enabled \in BOOLEAN : SetAudioEnabled(enabled)
  \/ \E elementType \in AudioKinds, duration \in CallDurations :
       playAudioForElement(elementType, duration)
  \/ ToneStarted

SpecAudio == InitAudio /\ [][NextAudio]_vars


(***************************************************************************)
(* The audio cues: the lookup                                              *)
(***************************************************************************)
\* the kinds with an entry of their own
KindsWithEntry ==
  {"function", "variable", "class", "loop", "conditional", "comment", "string", "number",
   "operator", "keyword"}

\* the entry of function, as the table is written
FunctionDescriptor ==
  [frequency |-> 440, duration |-> 500, waveform |-> "sine",
   envelope |-> [attack |-> 100, decay |-> 200, sustain |-> 700, release |-> 300]]

\* the entry every kind without one falls back on
DefaultDescriptor ==
  [frequency |-> 770, duration |-> 300, waveform |-> "sawtooth",
   envelope |-> [attack |-> 70, decay |-> 130, sustain |-> 780, release |-> 220]]

\* C10: the descriptor looked up for a kind is the table's entry of that kind,
\* unchanged (for function: 440 Hz, 0.5 s, sine), and for every kind without
\* an entry, import and export among them, the one default descriptor; the
\* table is the same at every call, so a kind yields the same descriptor always.
C10_CueLookup ==
  triggered # None =>
    /\ triggered[1].elementType \in KindsWithEntry =>
         triggered[1].mapping = audioMappings[triggered[1].elementType]
    /\ triggered[1].elementType = "function" => triggered[1].mapping = FunctionDescriptor
    /\ triggered[1].elementType \notin KindsWithEntry =>
         triggered[1].mapping = DefaultDescriptor
    /\ triggered[1].frequency = triggered[1].mapping.frequency

\* a tone has been played for the kind export, which has no entry, after the
\* call waited for the audio context
C10_Witness ==
  /\ triggered # None
  /\ triggered[1].elementType = "export"
  /\ triggered[1].mapping = DefaultDescriptor
  /\ synth # None
  /\ synth[1].waveform = "sawtooth"


(***************************************************************************)
(* The audio cues: calls while the synth comes and goes                    *)
(***************************************************************************)
\* the positions of the volume slider tried, in tenths
Volumes == {5, 10}

\* the positions of the speed slider tried, in tenths
Speeds == {10, 20}

\* a kind with an entry in the table and one without
TriggerKinds == {"function", "export"}

\* the user moves the sliders and the switches while cues are asked for
NextTrigger ==
  \/ \E enabled \in BOOLEAN : SetAudioEnabled(enabled)
  \/ \E volume \in Volumes : SetAudioVolume(volume)
  \/ \E speed \in Speeds : SetPlaybackSpeed(speed)
  \/ \E spatial \in BOOLEAN : SetSpatialAudio(spatial)
  \/ \E elementType \in TriggerKinds : playAudioForElement(elementType, None)
  \/ ToneStarted

SpecTrigger == InitAudio /\ [][NextTrigger]_vars

\* the step played no tone and no exception left the call
Silent ==
  /\ lastAudio'.outcome \in {"returned", "caught"}
  /\ UNCHANGED <<synth, triggered>>

\* a call made with the audio disabled or without a synth does nothing
SilentCall ==
  lastAudio'.op = "call" /\ (~audioEnabled \/ synth = None) =>
    Silent /\ UNCHANGED suspended

\* C11 as stated: a call made with the audio disabled or without a synth, and
\* a call whose synth was disposed of while it waited for the audio context
\* (by a volume change or by disabling the audio), plays no tone and lets no
\* error reach the caller.
C11_SilentOnceDisposed ==
  [][/\ SilentCall
     /\ lastAudio'.op = "resume" /\ lastAudio'.disposed => Silent]_vars

\* C11, amended: a call made with the audio disabled or without a synth, and
\* a call that resumes while the audio is disabled (the synth was disposed of
\* during the wait and none has replaced it), plays no tone and lets no error
\* reach the caller.  The table of tones is a constant of the component that
\* no operation assigns.
C11_SilentWithoutSynth ==
  [][/\ SilentCall
     /\ lastAudio'.op = "resume" /\ ~audioEnabled => Silent]_vars

\* a call whose synth was disposed of by disabling the audio has resumed and
\* was caught, an earlier tone still being the last one played
C11_Witness ==
  /\ lastAudio.op = "resume"
  /\ lastAudio.disposed
  /\ lastAudio.outcome = "caught"
  /\ ~audioEnabled
  /\ synth = None
  /\ triggered # None


(***************************************************************************)
(* The jump helpers                                                        *)
(***************************************************************************)
\* the line numbers asked for: lines with an element and one beyond the text
JumpLines == {1, 2, 9}

\* the kinds asked for: the kind the text has twice and an absent one
JumpKinds == {"variable", "class"}

\* the voice command "jump to line n".  Its listener was registered by the
\* render that installed the scanned elements, before any navigation, and is
\* registered anew only for a new scan or another mode.
VoiceJumpToLine(lineNumber) ==
  /\ navigationMode = "voice"
  /\ jumpToLine(lineNumber, 0 - 1)

\* jumpToType(type) of the current render
JumpToType(type) == jumpToType(type, currentHistoryIndex)

\* the kind filter switched on and off while jumping
JumpFilters == {"variable"}

\* the user sorts and filters the list of a scanned text and jumps
InitJump == ScannedIn(TextLet, "voice")

NextJump ==
  \/ \E q \in NavQueries : SetSearchQuery(q)
  \/ \E type \in JumpFilters : ToggleFilterType(type)
  \/ \E key \in SortKeys : SetSortBy(key)
  \/ \E order \in SortOrders : SetSortOrder(order)
  \/ \E lineNumber \in JumpLines : VoiceJumpToLine(lineNumber)
  \/ \E type \in JumpKinds : JumpToType(type)

SpecJump == InitJump /\ [][NextJump]_vars

\* the elements in the order the last scan emitted them
ScanOrder == WithRef(scanLog[Len(scanLog)].result.elements, scanCount)

\* the elements a jump asks for
Asked(elements, jump) ==
  {e \in Range(elements) : IF jump.by = "line" THEN e.line = jump.line
                                               ELSE e.type = jump.type}

\* C12: a jump to a line selects the first element in scan emission order on
\* that line and a jump to a kind the first element of that kind in scan
\* emission order, whatever sort key and order the index applies or applied;
\* a jump that matches no element leaves the history, the cursor, the
\* selection and the breadcrumbs as they are.
C12_JumpToFirstInScanOrder ==
  [][/\ lastOp'.op = "navigateTo" /\ lastOp'.action = "jump" =>
          /\ Asked(ScanOrder, lastOp'.jump) # {}
          /\ selectedElement' = Find(ScanOrder, Asked(ScanOrder, lastOp'.jump))
     /\ lastOp'.op = "jumpMissed" =>
          /\ Asked(ScanOrder, lastOp'.jump) = {}
          /\ UNCHANGED <<navigationHistory, currentHistoryIndex, selectedElement,
                         breadcrumbs>>]_vars


(***************************************************************************)
(* The index and the scanned elements                                      *)
(***************************************************************************)
\* C13: the index never mutates the element sequence the scan produced: for
\* every settings value and query, the sequence has the same elements in the
\* same order after the index has run as before.
C13_IndexKeepsElements ==
  [][lastOp'.op = "index" => codeElements' = codeElements]_vars


(***************************************************************************)
(* The search results                                                      *)
(***************************************************************************)
\* C14: every result of the search has a match count of at least 1: the
\* query matched the name, the description, the scope or a parameter of its
\* element.
C14_ResultsMatch ==
  \A k \in 1..Len(searchResults) :
    /\ searchResults[k].matches >= 1
    /\ \/ Contains(searchResults[k].element.name, searchQuery)
       \/ Contains(searchResults[k].element.scope, searchQuery)
       \/ /\ searchResults[k].element.description # None
          /\ Contains(searchResults[k].element.description[1], searchQuery)
       \/ /\ searchResults[k].element.params # None
          /\ \E p \in Range(searchResults[k].element.params[1]) : Contains(p, searchQuery)


\* the result comes before the element e in the order of the search: a higher
\* score, or the same score and an earlier place in the scan
RanksBefore(result, e, score) ==
  \/ result.score > score
  \/ /\ result.score = score
     /\ PositionIn(ScanOrder, result.element) < PositionIn(ScanOrder, e)

\* C15: the search results are in non-increasing order of score, results of
\* equal score in the scan emission order of their elements, whatever sort key
\* and order the index was configured with before the query; the results
\* kept are the first 20 of that ordering.
C15_ResultsByScoreThenScanOrder ==
  Trim(searchQuery) # <<>> =>
    /\ \A k, l \in 1..Len(searchResults) :
         k < l => RanksBefore(searchResults[k], searchResults[l].element,
                              searchResults[l].score)
    /\ \A e \in Range(ScanOrder) :
         ScoreOf(e, searchQuery) > 0
           /\ (\A k \in 1..Len(searchResults) : searchResults[k].element # e)
           => /\ Len(searchResults) = SearchResultLimit
              /\ \A k \in 1..Len(searchResults) :
                   RanksBefore(searchResults[k], e, ScoreOf(e, searchQuery))


(***************************************************************************)
(* The breadcrumbs                                                         *)
(***************************************************************************)
LineLetGlobal == <<"l","e","t"," ","g","l","o","b","a","l">>

LineLetGroup == <<"l","e","t"," ","g","r","o","u","p">>

\* two variables that bear the names of the two scopes without an element
TextScopeNames == JoinLines(<<LineLetGlobal, LineLetGroup>>)

\* the user walks through the list, grouped or not, of a scanned text
InitCrumbs == \E t \in {TextScopeNames, TextPlain} : Scanned(t)

NextCrumbs ==
  \/ ClickElement
  \/ ClickBreadcrumb
  \/ KeyArrowDown
  \/ ToggleGroupByType
  \/ \E order \in SortOrders : SetSortOrder(order)

SpecCrumbs == InitCrumbs /\ [][NextCrumbs]_vars

\* the places of the elements that bear the name of the scope of e
ScopeHits(e) == {i \in 1..Len(codeElements) : codeElements[i].name = e.scope}

\* the path is the one the claim gives for the element e
PathOf(e, path, hits) ==
  /\ Len(path) \in {1, 2}
  /\ path[Len(path)] = e
  /\ Len(path) = 2 <=> (e.scope # StrGlobal /\ e.scope # StrGroup /\ hits # {})
  /\ Len(path) = 2 => path[1] = codeElements[Min(hits)]

\* C16: after navigateTo(element, action) the breadcrumb path has length 1 or
\* 2 and ends with the element; it has length 2 exactly when the scope of the
\* element is neither 'global' nor 'group' and a scanned element bears the
\* scope as its name, and then it starts with the first such element.
C16_BreadcrumbPath ==
  [][lastOp'.op = "navigateTo" =>
       PathOf(lastOp'.element, breadcrumbs', ScopeHits(lastOp'.element))]_vars

\* the user went to a group and then to a variable of the scope global, each
\* scope being the name of a scanned variable, and the path is the variable
C16_Witness ==
  /\ lastOp.op = "navigateTo"
  /\ Len(navigationHistory) = 2
  /\ navigationHistory[1].element.scope = StrGroup
  /\ lastOp.element.scope = StrGlobal
  /\ ScopeHits(navigationHistory[1].element) # {}
  /\ ScopeHits(lastOp.element) # {}
  /\ breadcrumbs = <<lastOp.element>>


(***************************************************************************)
(* The complexity of a line                                                *)
(***************************************************************************)
LineIfAnd == <<"i","f"," ","(","a"," ","&","&"," ","b",")"," ","{">>

LineIfFormat == <<"i","f"," ","(","f","o","r","m","a","t",")"," ","{">>

LineWhileTernary == <<"w","h","i","l","e"," ","(","x"," ","?"," ","y"," ",":"," ","z",")"," ","{">>

LineForElsewhere == <<"f","o","r"," ","(","e","l","s","e","w","h","e","r","e",")"," ","{">>

\* texts of one line that opens a branch or a loop
BranchLines == {LineIf, LineIfAnd, LineIfFormat, LineWhileTernary, LineForElsewhere}

LineImportA == <<"i","m","p","o","r","t"," ","a"," ","f","r","o","m"," ","'","b","'">>

\* a variable, then an import, a comment and an export
TextImport == JoinLines(<<LineLetB, LineImportA, LineCommentA, LineExportA>>)

\* these and texts of comments, variables, imports and exports
ComplexityTexts == BranchLines \cup {TextPlain, TextImport}

\* the editor shows one such line after the other and each is scanned
InitComplexity == \E t \in ComplexityTexts : Mounted(t) /\ navigationMode = "keyboard"

NextComplexity ==
  \/ \E t \in ComplexityTexts : SetCode(t)
  \/ ParseTimeout

SpecComplexity == InitComplexity /\ [][NextComplexity]_vars

BranchWords ==
  {<<"i","f">>, <<"e","l","s","e">>, <<"w","h","i","l","e">>, <<"f","o","r">>,
   <<"s","w","i","t","c","h">>, <<"c","a","s","e">>, <<"c","a","t","c","h">>}

BranchOperators == {<<"&","&">>, <<"|","|">>, <<"?">>}

\* the word w stands at the 0-based position pos of s as a whole token
WholeWordAt(s, w, pos) ==
  /\ StartsWithAt(s, w, pos)
  /\ ~IsWordAt(s, pos)
  /\ ~IsWordAt(s, pos + Len(w) + 1)

\* the occurrences of the branch tokens on the line
BranchTokens(line) ==
  {<<w, pos>> \in BranchWords \X (0..Len(line)) : WholeWordAt(line, w, pos)}
    \cup {<<o, pos>> \in BranchOperators \X (0..Len(line)) : StartsWithAt(line, o, pos)}

\* C17: the complexity of a line is 1 plus the number of occurrences on it of
\* if, else, while, for, switch, case, catch, &&, || and ?, each counted as a
\* whole token: format and elsewhere add nothing, a && b and x ? y : z add 1.
C17_ComplexityCountsTokens ==
  \A i \in 1..Len(scanLog) :
    scanLog[i].text \in BranchLines =>
      /\ ~scanLog[i].result.raised
      /\ scanLog[i].result.elements # <<>>
      /\ \A k \in 1..Len(scanLog[i].result.elements) :
           scanLog[i].result.elements[k].complexity
             = Some(1 + Cardinality(BranchTokens(scanLog[i].text)))


(***************************************************************************)
(* The complexity of the scanned elements                                  *)
(***************************************************************************)
\* the elements of all scans so far
ScannedElements ==
  UNION {Range(scanLog[i].result.elements) : i \in 1..Len(scanLog)}

\* the element carries a complexity that is an integer of at least 1
HasComplexity(e) ==
  /\ e.complexity # None
  /\ e.complexity[1] \in Nat
  /\ e.complexity[1] >= 1

\* C18 as stated: every element a scan emits, of every kind including
\* comment, carries a complexity that is an integer of at least 1.
C18_EveryElementHasComplexity ==
  \A e \in ScannedElements : HasComplexity(e)

\* C18, amended: every element a scan emits of a kind other than comment
\* carries a complexity that is an integer of at least 1; a comment element
\* carries none.
C18_ComplexityButForComments ==
  \A e \in ScannedElements :
    IF e.type = "comment" THEN e.complexity = None ELSE HasComplexity(e)

\* a scan has emitted a comment, a variable and an export
C18_Witness ==
  \E i \in 1..Len(scanLog) :
    /\ ~scanLog[i].result.raised
    /\ {"comment", "variable", "export"}
         \subseteq {e.type : e \in Range(scanLog[i].result.elements)}


(***************************************************************************)
(* The scope of the scanned elements                                       *)
(***************************************************************************)
\* the places before k of the function and class elements
ScopesBefore(elements, k) ==
  {j \in 1..(k - 1) : elements[j].type \in {"function", "class"}}

\* the scope the k-th element is to have
ScopeAt(elements, k, before) ==
  IF elements[k].type = "import" \/ before = {} THEN StrGlobal
  ELSE elements[Max(before)].name

\* C19: in every scan result the scope of an element other than an import is
\* the name of the function or class element emitted last before it, or
\* 'global' if there is none; the scope of an import is 'global'.  So every
\* scope is 'global' or the name of a function or class emitted earlier.
C19_ScopeOfLastFunctionOrClass ==
  \A i \in 1..Len(scanLog) :
    \A k \in 1..Len(scanLog[i].result.elements) :
      scanLog[i].result.elements[k].scope
        = ScopeAt(scanLog[i].result.elements, k,
                  ScopesBefore(scanLog[i].result.elements, k))

\* a scan has emitted an import and an export after a variable
C19_Witness ==
  \E i \in 1..Len(scanLog) :
    /\ Len(scanLog[i].result.elements) = 4
    /\ scanLog[i].result.elements[1].type = "variable"
    /\ scanLog[i].result.elements[2].type = "import"
    /\ scanLog[i].result.elements[2].scope = StrGlobal
    /\ scanLog[i].result.elements[4].type = "export"
    /\ scanLog[i].result.elements[4].scope = StrGlobal


(***************************************************************************)
(* The index: grouping                                                     *)
(***************************************************************************)
\* the elements of the input that pass the filters
Filtered(input, s, q) == {e \in Range(input) : Passes(e, s, q)}

\* the sequence has no element twice
NoRepeats(seq) == Cardinality(Range(seq)) = Len(seq)

\* out is one group per kind of the filtered elements, each with the filtered
\* elements of its kind as children
GroupedWell(filtered, out) ==
  /\ \A k \in 1..Len(out) :
       /\ out[k].scope = StrGroup
       /\ out[k].children # None
       /\ NoRepeats(out[k].children[1])
       /\ Range(out[k].children[1]) = {e \in filtered : e.type = out[k].type}
  /\ {out[k].type : k \in 1..Len(out)} = {e.type : e \in filtered}
  /\ \A k, l \in 1..Len(out) : k # l => out[k].type # out[l].type
  /\ \A e \in filtered :
       Cardinality({k \in 1..Len(out) : e \in Range(out[k].children[1])}) = 1

\* C20: with grouping enabled the visible sequence is exactly one group element
\* per kind that occurs among the filtered elements and none for an absent
\* kind; the children of a group are exactly the filtered elements of its
\* kind, so that the children of the groups partition the filtered elements.
C20_GroupsPartitionFiltered ==
  [][lastOp'.op = "index" /\ settings'.groupByType =>
       GroupedWell(Filtered(codeElements, settings', searchQuery'),
                   filteredElements')]_vars

\* a grouped list of fewer elements than were scanned, in two groups at
\* least, one of them with two children that do not follow one another in
\* the text
C20_Witness ==
  /\ lastOp.op = "index"
  /\ settings.groupByType
  /\ settings.filterTypes # {} \/ searchQuery # <<>>
  /\ Len(filteredElements) >= 2
  /\ \E k \in 1..Len(filteredElements) :
       /\ Len(filteredElements[k].children[1]) = 2
       /\ filteredElements[k].children[1][2].line
            > filteredElements[k].children[1][1].line + 1


(***************************************************************************)
(* The audio cues: the stereo positions                                    *)
(***************************************************************************)
\* C21: the stereo position a trigger creates in spatial mode does not stay:
\* however many triggers there were, the panner nodes attached to the synth
\* do not pile up, one at most being attached at a time.
C21_PannersDoNotPileUp ==
  synth # None => synth[1].panners <= 1



(***************************************************************************)
(* The Braille conversion: the lookup of a contraction                     *)
(***************************************************************************)
StrForEachCall == <<"f","o","r","E","a","c","h","(">>

StrUndoCall == <<"u","n","d","o","(">>

StrElifSpace == <<"e","l","i","f"," ">>

StrIfCall == <<"i","f","(","x",")">>

StrFoSpace == <<"f","o"," ">>

\* the texts with keywords: a keyword of capitals and small letters, a keyword
\* at the end of a longer word, a keyword before a parenthesis, a keyword the
\* user's table has too, a word of the user's table alone, a declaration
ContractionTexts ==
  { StrForEachCall, StrUndoCall, StrElifSpace, StrIfCall, StrForSpace, StrFoSpace,
    LineFunctionAdd, <<"l","e","t","\n","f","o","r">> }

InitContract ==
  /\ brailleCode \in ContractionTexts
  /\ brailleSettings \in BrailleSettingsSet
  /\ customContractions \in CustomTables
  /\ brailleText = <<>>
  /\ stats = InitialStats
  /\ conversion = EffectDue
  /\ NavIdle
  /\ OutsideIdle
  /\ AudioIdle

SpecContract == InitContract /\ [][NextBraille]_vars

\* the text goes on with the word, letter for letter; the empty word spells
\* nothing
Spells(word, text) ==
  /\ word # <<>>
  /\ Len(word) <= Len(text)
  /\ SubSeq(text, 1, Len(word)) = word

\* the entries of a table whose word the text starts with and ends there
Candidates(entries, text) ==
  {k \in 1..Len(entries) :
     /\ Spells(entries[k].word, text)
     /\ NotOfAWord(FollowedBy(text, 0, entries[k].word))}

\* the greatest length of a candidate of either table, 0 when there is none
LongestCandidate(text, custom) ==
  Max({0} \cup {Len(programmingContractions[k].word) :
                  k \in Candidates(programmingContractions, text)}
          \cup {Len(custom[k].word) : k \in Candidates(custom, text)})

\* the cells of the candidates of a length in a table
CellsOf(entries, text, length) ==
  {entries[k].braille :
     k \in {j \in Candidates(entries, text) : Len(entries[j].word) = length}}

\* the cells of the longest candidate, the keyword table's before the user's
CellsDue(text, custom, length) ==
  IF CellsOf(programmingContractions, text, length) # {}
    THEN CellsOf(programmingContractions, text, length)
    ELSE CellsOf(custom, text, length)

\* what an iteration from c to d does with the lookup at the rest of the line
LookupAgrees(c, d, text, custom, length) ==
  IF length = 0
    THEN d.rule # "contraction"
    ELSE /\ d.rule = "contraction"
         /\ d.i = c.i + length
         /\ \E cells \in CellsDue(text, custom, length) :
              d.convertedLine = c.convertedLine \o cells

\* an iteration of the while loop that looks a contraction up
LookupStep ==
  /\ conversion.phase = "scan"
  /\ conversion'.phase = "scan"
  /\ conversion' # conversion
  /\ brailleSettings.contractionsEnabled
  /\ brailleSettings.grade = "grade2"

\* C22: at every position where a contraction is looked up, the lookup returns
\* the longest of the entries of the keyword table and of the user's table
\* whose word stands there and ends at the end of a word, the keyword table's
\* entry when both tables have one of that length, and no contraction when no
\* entry stands there.
C22_LookupReturnsLongest ==
  [][LookupStep =>
       LookupAgrees(conversion, conversion',
                    SliceFrom(conversion.lines[conversion.lineIndex + 1], conversion.i),
                    customContractions,
                    LongestCandidate(SliceFrom(conversion.lines[conversion.lineIndex + 1],
                                               conversion.i),
                                     customContractions))]_vars



(***************************************************************************)
(* The Braille conversion: the keywords, letter by letter                  *)
(***************************************************************************)
\* the keywords of the table, each a text by itself
KeywordTexts == {programmingContractions[k].word : k \in 1..Len(programmingContractions)}

\* settings that write no line number before the text
PlainSettingsSet == {s \in BrailleSettingsSet : ~s.showLineNumbers /\ s.autoRefresh}

InitKeywords ==
  /\ brailleCode \in KeywordTexts
  /\ brailleSettings \in PlainSettingsSet
  /\ customContractions = <<>>
  /\ brailleText = <<>>
  /\ stats = InitialStats
  /\ conversion = EffectDue
  /\ NavIdle
  /\ OutsideIdle
  /\ AudioIdle

SpecKeywords == InitKeywords /\ [][NextBraille]_vars

\* a conversion that looked no contraction up has returned
LetterByLetter ==
  /\ conversion.phase = "returned"
  /\ ~(brailleSettings.contractionsEnabled /\ brailleSettings.grade = "grade2")

\* C23: the cells of every keyword's contraction are fewer than the cells the
\* conversion writes for the keyword letter by letter.
C23_ContractionsShorter ==
  \A k \in 1..Len(programmingContractions) :
    LetterByLetter /\ conversion.text = programmingContractions[k].word =>
      CellCount(programmingContractions[k].braille) < CellCount(conversion.result[1])



(***************************************************************************)
(* The Braille conversion: the count of contractions                       *)
(***************************************************************************)
\* C24: the count of contractions in the statistics the effect stores is the
\* number of contractions the conversion of the text has taken: 0 with grade 1
\* or with the contractions disabled, and one for every keyword of the table
\* the conversion has replaced, whichever keyword it is.
C24_CountsAppliedContractions ==
  conversion.phase = "returned" /\ conversion.caller = "effect" =>
    /\ stats.contractions = Len(conversion.applied)
    /\ ~(brailleSettings.contractionsEnabled /\ brailleSettings.grade = "grade2")
         => stats.contractions = 0



(***************************************************************************)
(* Navigation history: the cursor                                          *)
(***************************************************************************)
\* the cursor is at an entry of the history, or at -1 before an empty one
CursorInHistory ==
  /\ currentHistoryIndex <= Len(navigationHistory) - 1
  /\ currentHistoryIndex >= 0 - 1
  /\ currentHistoryIndex = 0 - 1 => navigationHistory = <<>>

\* after navigateTo the cursor is at the entry it appended
CursorAtNewEntry ==
  lastOp'.op = "navigateTo" =>
    /\ currentHistoryIndex' = Len(navigationHistory') - 1
    /\ navigationHistory'[Len(navigationHistory')] = NewEntry

\* C25: however the clicks, the keys of the registered keydown listener and
\* the moves through the history follow one another, the cursor never passes
\* the last entry of the history and is -1 only before an empty history, and
\* right after a navigateTo it is at the entry just appended.
C25_CursorStaysInHistory ==
  []CursorInHistory /\ [][CursorAtNewEntry]_vars



(***************************************************************************)
(* The Braille conversion: the start of a word                             *)
(***************************************************************************)
\* the character before the 0-based position at of a line
PrecededBy(line, at) == IF at > 0 THEN line[at] ELSE "start"

NotAfterAWord(c) ==
  c = "start" \/ c \notin (Range(LowerLetters) \cup Range(UpperLetters) \cup Range(Digits) \cup {"_"})

\* C26: a contraction is taken only for a whole word: never where a letter, a
\* digit or an underscore stands right before the keyword on the line, so not
\* for the "do" of "undo(" nor for the "if" of "elif ".
C26_ContractionAtWordStart ==
  \A k \in 1..Len(conversion.applied) :
    NotAfterAWord(PrecededBy(conversion.lines[conversion.applied[k].line + 1],
                             conversion.applied[k].at))



(***************************************************************************)
(* The Braille conversion: every keyword of the table                      *)
(***************************************************************************)
\* a conversion that looks contractions up has returned
WithContractions ==
  /\ conversion.phase = "returned"
  /\ brailleSettings.contractionsEnabled
  /\ brailleSettings.grade = "grade2"

\* C27: with grade 2 and the contractions enabled, every keyword of the table,
\* those with capitals inside included, is replaced by the cells of its
\* contraction where it stands spelled as in the table at the start of a word
\* with the end of the line or a character of no identifier after it: as a
\* line by itself it is converted to those cells.
C27_EveryKeywordReplaced ==
  \A k \in 1..Len(programmingContractions) :
    WithContractions /\ conversion.text = programmingContractions[k].word =>
      /\ conversion.applied =
           <<[line |-> 0, at |-> 0, word |-> programmingContractions[k].word]>>
      /\ conversion.result[1] = programmingContractions[k].braille



(***************************************************************************)
(* The structural scanner: the elements follow the text                    *)
(***************************************************************************)
\* the elements without the identity of their scan
Plain(elements) ==
  {[f \in DOMAIN e \ {"ref"} |-> e[f]] : e \in Range(elements)}

\* the elements scan gives for a text, none for the empty text
ElementsOf(t) == IF t = <<>> THEN {} ELSE Range(parseCode(t).elements)

\* scan returns for the text
Scans(t) == t = <<>> \/ ~parseCode(t).raised

\* no scan is pending: every change of the text has had its scan
Settled == parseTimers = <<>>

\* the step installs the result of the scan of a text
Installs(t) ==
  /\ Len(scanLog') = Len(scanLog) + 1
  /\ scanLog'[Len(scanLog')].text = t
  /\ ~scanLog'[Len(scanLog')].result.raised

\* a result of a text that is no longer the current one is installed only
\* while the scan of the current text is still to come
OnlyBeforeLatest ==
  \A t \in Texts \ {code} : Installs(t) => \E k \in 1..Len(parseTimers') : parseTimers'[k] = code

\* C28: once the text has stopped changing and no scan is pending, the
\* elements are those of the scan of the current text, none for the empty
\* text, and the result of a superseded text is never installed after the
\* result of the latest one.
C28_ElementsFollowText ==
  /\ [](Settled /\ Scans(code) => Plain(codeElements) = ElementsOf(code))
  /\ [][OnlyBeforeLatest]_vars



(***************************************************************************)
(* The server: the navigation events of a session                          *)
(*                                                                         *)
(* Of the analytics of a session the handlers below read and write the     *)
(* navigationEvents list and the keyboardShortcutsUsed counter.  Every     *)
(* recorded event carries the number of its arrival beside its fields.     *)
(***************************************************************************)
NavigationEventLimit == 200

MaxArrivals == 202

MaxShortcuts == 1

\* the sessionId of a request: missing, of no session, of the session
RequestIds == {None, Some("s0"), Some("s1")}

\* the action of a request: missing, a move, a keyboard shortcut
RequestActions == {None, Some("navigate"), Some("keyboard-shortcut")}

\* new Date().toISOString()
Now == "now"

\* codeAnalytics.set(sessionId, {...}) of /api/session/create
NewAnalytics == [navigationEvents |-> <<>>, keyboardShortcutsUsed |-> 0]

\* codeAnalytics.has(sessionId)
HasAnalytics(sessionId) ==
  /\ sessionId # None
  /\ sessionId[1] \in SessionIds
  /\ codeAnalytics[sessionId[1]] # None

\* array.slice(-n)
LastOf(array, n) ==
  IF Len(array) > n THEN SubSeq(array, Len(array) - n + 1, Len(array)) ELSE array

\* analytics.navigationEvents.push({action, element, timestamp})
PushEvent(analytics, action, element, timestamp, arrival) ==
  [analytics EXCEPT !.navigationEvents =
     Append(@, [action |-> action, element |-> element, timestamp |-> timestamp,
                arrival |-> arrival])]

\* analytics.keyboardShortcutsUsed = (analytics.keyboardShortcutsUsed || 0) + 1
CountShortcut(analytics, action) ==
  IF action = "keyboard-shortcut"
    THEN [analytics EXCEPT !.keyboardShortcutsUsed = @ + 1]
    ELSE analytics

\* navigationEvents = navigationEvents.slice(-200) when longer than 200
KeepLast(analytics) ==
  IF Len(analytics.navigationEvents) > NavigationEventLimit
    THEN [analytics EXCEPT !.navigationEvents = LastOf(@, NavigationEventLimit)]
    ELSE analytics

\* the shortcuts counted so far stay within the bound of the model
ShortcutsBounded(sessionId, action) ==
  action = Some("keyboard-shortcut") /\ HasAnalytics(sessionId) =>
    codeAnalytics[sessionId[1]][1].keyboardShortcutsUsed < MaxShortcuts

\* POST /api/session/create: the analytics of the new session
CreateSession(id) ==
  /\ codeAnalytics[id] = None
  /\ codeAnalytics' = [codeAnalytics EXCEPT ![id] = Some(NewAnalytics)]
  /\ lastRequest' = [op |-> "create", status |-> 200]
  /\ UNCHANGED arrivals
  /\ UNCHANGED <<navVars, brailleVars, audioVars, streamVars>>

\* POST /api/navigation/track
TrackNavigation(sessionId, action, element, timestamp) ==
  /\ HasAnalytics(sessionId) => arrivals[sessionId[1]] < MaxArrivals
  /\ ShortcutsBounded(sessionId, action)
  /\ IF sessionId = None \/ action = None
       THEN /\ lastRequest' = [op |-> "track", status |-> 400]
            /\ UNCHANGED <<codeAnalytics, arrivals>>
       ELSE /\ lastRequest' = [op |-> "track", status |-> 200]
            /\ IF HasAnalytics(sessionId)
                 THEN /\ codeAnalytics' =
                           [codeAnalytics EXCEPT ![sessionId[1]] =
                              Some(KeepLast(CountShortcut(
                                     PushEvent(@[1], action[1], element,
                                               IF timestamp # None THEN timestamp[1] ELSE Now,
                                               arrivals[sessionId[1]] + 1),
                                     action[1])))]
                      /\ arrivals' = [arrivals EXCEPT ![sessionId[1]] = @ + 1]
                 ELSE UNCHANGED <<codeAnalytics, arrivals>>
  /\ UNCHANGED <<navVars, brailleVars, audioVars, streamVars>>

\* socket.on('navigation-event'), with the broadcast to the session's room
NavigationEvent(sessionId, action, element) ==
  /\ HasAnalytics(sessionId) => arrivals[sessionId[1]] < MaxArrivals
  /\ lastRequest' = [op |-> "navigation-event",
                     emitted |-> [action |-> action, element |-> element]]
  /\ IF HasAnalytics(sessionId)
       THEN /\ codeAnalytics' =
                 [codeAnalytics EXCEPT ![sessionId[1]] =
                    Some(PushEvent(@[1], action, element, Now,
                                   arrivals[sessionId[1]] + 1))]
            /\ arrivals' = [arrivals EXCEPT ![sessionId[1]] = @ + 1]
       ELSE UNCHANGED <<codeAnalytics, arrivals>>
  /\ UNCHANGED <<navVars, brailleVars, audioVars, streamVars>>

\* the server starts with no session
InitServer == NavIdle /\ BrailleIdle /\ AudioIdle /\ OutsideIdle

NextServer ==
  \/ \E id \in SessionIds : CreateSession(id)
  \/ \E sessionId \in RequestIds, action \in RequestActions :
       TrackNavigation(sessionId, action, "e", None)
  \/ \E sessionId \in RequestIds :
       NavigationEvent(sessionId, "navigate", "e")

SpecServer == InitServer /\ [][NextServer]_vars

\* the recorded events of a session are the latest arrivals, in their order
LatestArrivals(events, arrived) ==
  \A i \in 1..Len(events) : events[i].arrival = arrived - Len(events) + i

\* C29: whatever navigation events arrive for a session by the REST endpoint
\* and by the socket message, its navigationEvents list holds 200 entries at
\* most, and they are the most recent arrivals in the order they came.
C29_NavigationEventsBounded ==
  \A id \in SessionIds :
    codeAnalytics[id] # None =>
      /\ Len(codeAnalytics[id][1].navigationEvents) <= NavigationEventLimit
      /\ LatestArrivals(codeAnalytics[id][1].navigationEvents, arrivals[id])



(***************************************************************************)
(* The client of the seismic data stream                                   *)
(*                                                                         *)
(* A socket is "connecting", "open", "closing" after close() was called    *)
(* on it, or "closed" once its close event was handled.  The handlers of   *)
(* every socket are those connect() gave it.                               *)
(***************************************************************************)
MAX_RECONNECT_ATTEMPTS == 5

MaxSockets == 6

\* this.ws = new WebSocket(url), with the handlers set
NewSocket == [readyState |-> "connecting", requested |-> FALSE]

\* connect(), called by the application or by the timer of handleDisconnect
connect(by) ==
  /\ Len(sockets) < MaxSockets
  /\ sockets' = Append(sockets, NewSocket)
  /\ ws' = Some(Len(sockets) + 1)
  /\ lastStream' = [op |-> "connect", by |-> by, stopped |-> stopped]
  /\ UNCHANGED reconnectAttempts

\* the application starts the stream
Connect ==
  /\ connect("application")
  /\ stopped' = FALSE
  /\ UNCHANGED reconnectTimers
  /\ UNCHANGED <<navVars, brailleVars, audioVars, serverVars>>

\* setTimeout(() => this.connect(), 5000 * this.reconnectAttempts) is due
ReconnectTimeout ==
  /\ reconnectTimers > 0
  /\ connect("timer")
  /\ reconnectTimers' = reconnectTimers - 1
  /\ UNCHANGED stopped
  /\ UNCHANGED <<navVars, brailleVars, audioVars, serverVars>>

\* ws.onopen
SocketOpen(i) ==
  /\ sockets[i].readyState = "connecting"
  /\ sockets' = [sockets EXCEPT ![i].readyState = "open"]
  /\ reconnectAttempts' = 0
  /\ lastStream' = [op |-> "open"]
  /\ UNCHANGED <<ws, reconnectTimers, stopped>>
  /\ UNCHANGED <<navVars, brailleVars, audioVars, serverVars>>

\* handleDisconnect(), run by the close event of a socket
handleDisconnect(requested) ==
  IF reconnectAttempts < MAX_RECONNECT_ATTEMPTS
    THEN /\ reconnectAttempts' = reconnectAttempts + 1
         /\ reconnectTimers' = reconnectTimers + 1
         /\ lastStream' = [op |-> "close", requested |-> requested, scheduled |-> TRUE]
    ELSE /\ lastStream' = [op |-> "close", requested |-> requested, scheduled |-> FALSE]
         /\ UNCHANGED <<reconnectAttempts, reconnectTimers>>

\* ws.onclose of a socket
onclose(i) ==
  /\ sockets' = [sockets EXCEPT ![i].readyState = "closed"]
  /\ handleDisconnect(sockets[i].requested)
  /\ UNCHANGED <<ws, stopped>>
  /\ UNCHANGED <<navVars, brailleVars, audioVars, serverVars>>

\* the connection fails or the server ends it: onerror logs, then onclose
SocketLost(i) ==
  /\ sockets[i].readyState \in {"connecting", "open"}
  /\ onclose(i)

\* the close event of a socket that close() was called on
SocketClosed(i) ==
  /\ sockets[i].readyState = "closing"
  /\ onclose(i)

\* ws.close() on a socket
Close(socket) ==
  IF socket.readyState \in {"connecting", "open"}
    THEN [readyState |-> "closing", requested |-> TRUE]
    ELSE socket

\* disconnect()
Disconnect ==
  /\ ~stopped \/ ws # None
  /\ IF ws # None
       THEN /\ sockets' = [sockets EXCEPT ![ws[1]] = Close(@)]
            /\ ws' = None
       ELSE UNCHANGED <<sockets, ws>>
  /\ stopped' = TRUE
  /\ lastStream' = [op |-> "disconnect"]
  /\ UNCHANGED <<reconnectAttempts, reconnectTimers>>
  /\ UNCHANGED <<navVars, brailleVars, audioVars, serverVars>>

\* the service as exported: constructed, not connected
InitStream == NavIdle /\ BrailleIdle /\ AudioIdle /\ OutsideIdle

NextStream ==
  \/ Connect
  \/ ReconnectTimeout
  \/ \E i \in 1..Len(sockets) : SocketOpen(i)
  \/ \E i \in 1..Len(sockets) : SocketLost(i)
  \/ \E i \in 1..Len(sockets) : SocketClosed(i)
  \/ Disconnect

SpecStream == InitStream /\ [][NextStream]_vars

\* no connection is opened by a timer once disconnect() was called
NoConnectOnceStopped ==
  lastStream'.op = "connect" /\ lastStream'.by = "timer" => ~stopped

\* a reconnect is scheduled only by a close the client did not ask for
ReconnectOnlyWhenLost ==
  lastStream'.op = "close" /\ lastStream'.scheduled => ~lastStream'.requested

\* a scheduled reconnect is one of five at most since the last open
ReconnectCounted ==
  lastStream'.op = "close" /\ lastStream'.scheduled =>
    /\ reconnectAttempts < MAX_RECONNECT_ATTEMPTS
    /\ reconnectAttempts' = reconnectAttempts + 1

OpenResets == lastStream'.op = "open" => reconnectAttempts' = 0

\* C30: after disconnect() no connection is opened again and the close event
\* that disconnect() causes schedules no reconnect; a reconnect is scheduled
\* only after a close the client did not ask for, five times at most without
\* an open in between, and an open sets the count of attempts back to 0.
C30_ReconnectOnlyAfterLoss ==
  /\ [][NoConnectOnceStopped /\ ReconnectOnlyWhenLost /\ ReconnectCounted /\ OpenResets]_vars
  /\ [](reconnectAttempts <= MAX_RECONNECT_ATTEMPTS)

=============================================================================
